---- MODULE Spec2Model ----
(***************************************************************************)
(* A model of src/index.ts, the Logseq MCP tool server: the date-range     *)
(* resolver, the block-tree renderer, the query result formatter and the   *)
(* four tool handlers with the remote calls they issue.                    *)
(*                                                                         *)
(* Text is modelled with TLA+ strings, so that formatting, truncation,     *)
(* lower-casing and trimming are computed character by character.          *)
(* A JavaScript Date is a record [day, ms]: the local calendar day counted *)
(* from 1970-01-01 and the millisecond within that day.  The local time    *)
(* zone is taken to have no daylight-saving transitions.                   *)
(***************************************************************************)
EXTENDS Integers, Sequences, FiniteSets, TLC

VARIABLES
    today,        \* parseDateRange: the value of new Date() (line 79)
    dateRange,    \* parseDateRange: the phrase passed in
    parsed,       \* parseDateRange: what the call produced, or NotCalled
    blocks,       \* processBlocks: the block tree passed in
    text,         \* processBlocks: the text returned, or NotCalled
    results,      \* logseq_query: the results array (line 195)
    limit,        \* logseq_query: filters.limit
    output,       \* logseq_query: the output mode
    outputText,   \* logseq_query: the text built from line 300 on
    qpc,          \* logseq_query: where the handler stands after its switch
    remoteRows,   \* a remote result whose records a handler reads
    normStep,     \* the step that read remoteRows, or "none"
    normOut,      \* what that step made of remoteRows
    pages,        \* the remote store: page name -> page with its block tree
    nextId,       \* the remote store: the number of the next block it creates
    calls,        \* every remote call issued so far, with how it ended
    inv,          \* the tool invocations: request, position, locals, response
    buildType,    \* buildDatalogQuery: the queryType it is called with
    buildParams,  \* buildDatalogQuery: the params it is called with
    built         \* buildDatalogQuery: what it returned, or NotCalled

dateVars  == <<today, dateRange, parsed>>
blockVars == <<blocks, text>>
queryVars == <<results, limit, output, outputText, qpc>>
normVars  == <<remoteRows, normStep, normOut>>
toolVars  == <<pages, nextId, calls, inv>>
buildVars == <<buildType, buildParams, built>>
vars == <<dateVars, blockVars, queryVars, normVars, toolVars, buildVars>>

\* The JavaScript value undefined, and the value of a variable not yet set.
Undefined == "undefined"
NotCalled == [called |-> FALSE]

(***************************************************************************)
(* JavaScript values as the remote results carry them: a value is a record *)
(* with its type and, but for undefined and null, its content.  An object  *)
(* holds a function from its keys to values, an array a sequence.          *)
(***************************************************************************)
Undef   == [type |-> "undefined"]
Null    == [type |-> "null"]
Str(s)  == [type |-> "string", v |-> s]
Num(n)  == [type |-> "number", v |-> n]
Bool(b) == [type |-> "boolean", v |-> b]
Obj(f)  == [type |-> "object", v |-> f]
Arr(q)  == [type |-> "array", v |-> q]

(***************************************************************************)
(* Bounds of the model.                                                    *)
(***************************************************************************)
\* The current date ranges over FirstYear .. FirstYear + MaxYearOffset.
MaxYearOffset == 2
\* A block tree passed to processBlocks has at most MaxNodes blocks.
MaxNodes == 4
\* A query yields at most MaxRows rows.
MaxRows == 22

(***************************************************************************)
(* JavaScript Date (ECMAScript MakeDay / local-time field accessors).      *)
(***************************************************************************)
MsPerDay == 86400000

\* Days from 1970-01-01 to the given year, 0-based month and day of month.
\* The month and the day may lie outside their ranges and carry over, as
\* Date.prototype.setDate and setMonth do.
DaysOfEra(era, yoe, mp, d) ==
    era * 146097 + yoe * 365 + (yoe \div 4) - (yoe \div 100)
    + ((153 * mp + 2) \div 5) - 719468 + (d - 1)
DaysOfYear(y2, mm, d) ==
    DaysOfEra(y2 \div 400, y2 % 400, IF mm > 2 THEN mm - 3 ELSE mm + 9, d)
DaysOfMonth(yy, mm, d) == DaysOfYear(IF mm <= 2 THEN yy - 1 ELSE yy, mm, d)
DaysFromCivil(y, m, d) == DaysOfMonth(y + (m \div 12), (m % 12) + 1, d)

\* The year, 0-based month and day of month of a day number.
CivilOfMonth(era, yoe, doy, mp, mm) ==
    [year  |-> yoe + era * 400 + (IF mm <= 2 THEN 1 ELSE 0),
     month |-> mm - 1,
     date  |-> doy - ((153 * mp + 2) \div 5) + 1]
CivilOfDayOfYear(era, yoe, doy, mp) ==
    CivilOfMonth(era, yoe, doy, mp, IF mp < 10 THEN mp + 3 ELSE mp - 9)
CivilOfYearOfEra(era, doe, yoe) ==
    CivilOfDayOfYear(era, yoe, doe - (365 * yoe + (yoe \div 4) - (yoe \div 100)),
        (5 * (doe - (365 * yoe + (yoe \div 4) - (yoe \div 100))) + 2) \div 153)
CivilOfDayOfEra(era, doe) ==
    CivilOfYearOfEra(era, doe,
        (doe - (doe \div 1460) + (doe \div 36524) - (doe \div 146096)) \div 365)
CivilFromDays(n) ==
    CivilOfDayOfEra((n + 719468) \div 146097, (n + 719468) % 146097)

getFullYear(dt) == CivilFromDays(dt.day).year
getMonth(dt)    == CivilFromDays(dt.day).month
getDate(dt)     == CivilFromDays(dt.day).date
\* 0 is Sunday; 1970-01-01 was a Thursday.
getDay(dt)      == (dt.day + 4) % 7

setDate(dt, d) ==
    [dt EXCEPT !.day = DaysFromCivil(getFullYear(dt), getMonth(dt), d)]
setMonth(dt, m, d) ==
    [dt EXCEPT !.day = DaysFromCivil(getFullYear(dt), m, d)]
setHours(dt, h, mi, s, ms) ==
    [dt EXCEPT !.ms = ((h * 60 + mi) * 60 + s) * 1000 + ms]

\* a <= b on Dates compares their time values, day * MsPerDay + ms; with
\* 0 <= ms < MsPerDay that is the order on the pairs (day, ms).
DateLE(a, b) == a.day < b.day \/ (a.day = b.day /\ a.ms <= b.ms)

MonthLong == <<"January", "February", "March", "April", "May", "June", "July",
               "August", "September", "October", "November", "December">>
\* date.toLocaleString('en-US', {month: 'long'})
toLocaleMonthLong(dt) == MonthLong[getMonth(dt) + 1]

(***************************************************************************)
(* String.prototype.toLowerCase and trim.                                  *)
(***************************************************************************)
UpperCase == "ABCDEFGHIJKLMNOPQRSTUVWXYZ"
LowerCase == "abcdefghijklmnopqrstuvwxyz"

LowerChar(c) ==
    IF \E i \in 1..Len(UpperCase) : SubSeq(UpperCase, i, i) = c
    THEN LET i == CHOOSE j \in 1..Len(UpperCase) : SubSeq(UpperCase, j, j) = c
         IN  SubSeq(LowerCase, i, i)
    ELSE c

RECURSIVE toLowerCase(_)
toLowerCase(s) ==
    IF s = "" THEN "" ELSE LowerChar(Head(s)) \o toLowerCase(Tail(s))

IsWhiteSpace(c) == c \in {" ", "\t", "\n", "\r"}

RECURSIVE trimStart(_)
trimStart(s) ==
    IF s # "" /\ IsWhiteSpace(Head(s)) THEN trimStart(Tail(s)) ELSE s

RECURSIVE trimEnd(_)
trimEnd(s) ==
    IF s # "" /\ IsWhiteSpace(SubSeq(s, Len(s), Len(s)))
    THEN trimEnd(SubSeq(s, 1, Len(s) - 1))
    ELSE s

trim(s) == trimEnd(trimStart(s))

\* Whether s begins with the lower-case word w, in any mix of cases.
StartsWithLower(s, w) ==
    Len(w) <= Len(s) /\ toLowerCase(SubSeq(s, 1, Len(w))) = w

(***************************************************************************)
(* parseDateRange (lines 78-129).  Each entry of the ranges table is an    *)
(* operator from the closure's variables [start, end, title] to their      *)
(* values after the entry ran; today is read and never written.            *)
(***************************************************************************)
RangeToday(t, v) ==
    [v EXCEPT !.start = setHours(v.start, 0, 0, 0, 0),
              !.title = "Today's Journal"]

RangeYesterday(t, v) ==
    [v EXCEPT !.start = setHours(setDate(v.start, getDate(t) - 1), 0, 0, 0, 0),
              !.end   = setDate(v.end, getDate(t) - 1),
              !.title = "Yesterday's Journal"]

RangeThisWeek(t, v) ==
    [v EXCEPT !.start = setHours(setDate(v.start, getDate(t) - getDay(t)), 0, 0, 0, 0),
              !.title = "This Week's Journal"]

\* A variant of RangeLastWeek that goes back seven days from today.
RangeLastWeekBackSeven(t, v) ==
    [v EXCEPT !.start = setHours(setDate(v.start, getDate(t) - 7), 0, 0, 0, 0),
              !.end   = setHours(setDate(v.end, getDate(t) - 1), 23, 59, 59, 999),
              !.title = "Last Week's Journal"]

RangeLastWeek(t, v) ==
    [v EXCEPT !.start = setHours(setDate(v.start, getDate(t) - getDay(t) - 7), 0, 0, 0, 0),
              !.end   = setHours(setDate(v.end, getDate(t) - getDay(t) - 1), 23, 59, 59, 999),
              !.title = "Last Week's Journal"]

RangeThisMonth(t, v) ==
    [v EXCEPT !.start = setHours(setDate(v.start, 1), 0, 0, 0, 0),
              !.title = "Journal for " \o toLocaleMonthLong(t) \o " "
                            \o ToString(getFullYear(t))]

\* A variant of RangeLastMonth that moves the month back and keeps the day.
RangeLastMonthKeepDay(t, v) ==
    LET s == setHours(setMonth(v.start, getMonth(t) - 1, getDate(v.start)), 0, 0, 0, 0)
    IN  [v EXCEPT !.start = s,
                  !.end   = setDate(v.end, 0),
                  !.title = "Journal for " \o toLocaleMonthLong(s) \o " "
                                \o ToString(getFullYear(s))]

RangeLastMonth(t, v) ==
    LET s == setHours(setMonth(v.start, getMonth(t) - 1, 1), 0, 0, 0, 0)
    IN  [v EXCEPT !.start = s,
                  !.end   = setDate(v.end, 0),
                  !.title = "Journal for " \o toLocaleMonthLong(s) \o " "
                                \o ToString(getFullYear(s))]

RangeLast7Days(t, v) ==
    [v EXCEPT !.start = setHours(setDate(v.start, getDate(t) - 7), 0, 0, 0, 0),
              !.title = "Last 7 Days Journal"]

RangeLast30Days(t, v) ==
    [v EXCEPT !.start = setHours(setDate(v.start, getDate(t) - 30), 0, 0, 0, 0),
              !.title = "Last 30 Days Journal"]

\* The own keys of the ranges object literal (lines 86-116).
RangeKeys == {"today", "yesterday", "this week", "last week", "this month",
              "last month", "last 7 days", "last 30 days"}

RunRange(key, t, v) ==
    CASE key = "today"        -> RangeToday(t, v)
      [] key = "yesterday"    -> RangeYesterday(t, v)
      [] key = "this week"    -> RangeThisWeek(t, v)
      [] key = "last week"    -> RangeLastWeek(t, v)
      [] key = "this month"   -> RangeThisMonth(t, v)
      [] key = "last month"   -> RangeLastMonth(t, v)
      [] key = "last 7 days"  -> RangeLast7Days(t, v)
      [] key = "last 30 days" -> RangeLast30Days(t, v)

\* ranges is an object literal, so ranges[key] also finds what it inherits
\* from Object.prototype: functions, and under "__proto__" the prototype
\* object itself.
ObjectPrototypeFunctions ==
    {"constructor", "toString", "toLocaleString", "valueOf", "hasOwnProperty",
     "isPrototypeOf", "propertyIsEnumerable", "__defineGetter__",
     "__defineSetter__", "__lookupGetter__", "__lookupSetter__"}

\* The kind of value ranges[key] evaluates to.
RangesLookup(key) ==
    CASE key \in RangeKeys                -> "entry"
      [] key \in ObjectPrototypeFunctions -> "inherited function"
      [] key = "__proto__"                -> "inherited object"
      [] OTHER                            -> Undefined

\* The else branch of line 122: "Default to this week".
RangeDefault(t, v) ==
    [v EXCEPT !.start = setHours(setDate(v.start, getDate(t) - getDay(t)), 0, 0, 0, 0),
              !.title = "Weekly Journal"]

\* The result of parseDateRange(phrase) when new Date() is t: the returned
\* {start, end, title}, or threw = TRUE when the call raised a TypeError.
parseDateRange(phrase, t) ==
    LET v0 == [start |-> t,
               end   |-> setHours(t, 23, 59, 59, 999),
               title |-> ""]
        normalizedRange == trim(toLowerCase(phrase))
        found == RangesLookup(normalizedRange)
        ret(v) == [called |-> TRUE, threw |-> FALSE,
                   start |-> v.start, end |-> v.end, title |-> v.title]
    IN  CASE found = "entry"              -> ret(RunRange(normalizedRange, t, v0))
          [] found = "inherited function" -> ret(v0)
          [] found = "inherited object"   ->
                 [called |-> TRUE, threw |-> TRUE,
                  start |-> v0.start, end |-> v0.end, title |-> v0.title]
          [] OTHER                        -> ret(RangeDefault(t, v0))

(***************************************************************************)
(* processBlocks (lines 64-75).  A block is [content, children]; a block   *)
(* with no content has content "", which is falsy as undefined is.         *)
(***************************************************************************)
RECURSIVE repeat(_, _)
\* String.prototype.repeat
repeat(s, n) == IF n <= 0 THEN "" ELSE s \o repeat(s, n - 1)

RECURSIVE processBlocks(_, _)
processBlocks(bs, indent) ==
    IF bs = <<>> THEN ""
    ELSE LET block == Head(bs)
             own == IF block.content # ""
                    THEN repeat("  ", indent) \o "- " \o block.content \o "\n"
                           \o (IF Len(block.children) > 0
                               THEN processBlocks(block.children, indent + 1)
                               ELSE "")
                    ELSE ""
         IN  own \o processBlocks(Tail(bs), indent)


\* ToBoolean
Truthy(x) ==
    CASE x.type \in {"undefined", "null"} -> FALSE
      [] x.type = "string"  -> x.v # ""
      [] x.type = "number"  -> x.v # 0
      [] x.type = "boolean" -> x.v
      [] OTHER              -> TRUE

\* a || b
Or(a, b) == IF Truthy(a) THEN a ELSE b

\* Reading a property of undefined or null raises a TypeError.
Nullish(x) == x.type \in {"undefined", "null"}

\* x[key] for a property name: arrays and primitives have no such property.
Get(x, key) ==
    IF x.type = "object" /\ key \in DOMAIN x.v THEN x.v[key] ELSE Undef

\* x[0]: the first element of an array; an object has no property "0".
Index0(x) ==
    IF x.type = "array" /\ Len(x.v) > 0 THEN x.v[1] ELSE Get(x, "0")

\* A value interpolated into a template literal.
ToStr(x) ==
    CASE x.type = "string"    -> x.v
      [] x.type = "number"    -> ToString(x.v)
      [] x.type = "boolean"   -> IF x.v THEN "true" ELSE "false"
      [] x.type = "undefined" -> "undefined"
      [] x.type = "null"      -> "null"
      [] x.type = "array"     -> "[array]"
      [] OTHER                -> "[object Object]"

\* String.prototype.substring(0, n)
substring0(s, n) == SubSeq(s, 1, IF n < Len(s) THEN n ELSE Len(s))

\* Array.prototype.slice(0, n): a negative n counts from the end.
slice0(q, n) ==
    LET e == IF n < 0 THEN (IF Len(q) + n < 0 THEN 0 ELSE Len(q) + n)
             ELSE (IF n < Len(q) THEN n ELSE Len(q))
    IN  SubSeq(q, 1, e)

RECURSIVE join(_, _)
\* Array.prototype.join
join(q, sep) ==
    IF q = <<>> THEN ""
    ELSE IF Len(q) = 1 THEN q[1]
    ELSE q[1] \o sep \o join(Tail(q), sep)

(***************************************************************************)
(* JSON.stringify(value, null, 2) for the values above.  The keys of an    *)
(* object come out in the order of KeyOrder; the strings of the model hold *)
(* no character that JSON escapes.                                         *)
(***************************************************************************)
KeyOrder == <<"id", "block/name", "block/original-name", "block/content",
              "block/marker", "block/journal?", "block/journal-day",
              "name", "originalName", "content", "marker", "journal?",
              "journalDay", "uuid">>

RECURSIVE stringify(_, _)
stringify(x, ind) ==
    CASE x.type = "string" -> "\"" \o x.v \o "\""
      [] x.type \in {"number", "boolean", "null"} -> ToStr(x)
      [] x.type = "undefined" -> "null"
      [] x.type = "array" ->
             IF x.v = <<>> THEN "[]"
             ELSE "[\n"
                  \o join([i \in 1..Len(x.v) |->
                             repeat(" ", ind + 2) \o stringify(x.v[i], ind + 2)],
                          ",\n")
                  \o "\n" \o repeat(" ", ind) \o "]"
      [] OTHER ->
             LET keys == SelectSeq(KeyOrder,
                            LAMBDA k : k \in DOMAIN x.v /\ x.v[k].type # "undefined")
             IN  IF keys = <<>> THEN "{}"
                 ELSE "{\n"
                      \o join([i \in 1..Len(keys) |->
                                 repeat(" ", ind + 2) \o "\"" \o keys[i] \o "\": "
                                   \o stringify(x.v[keys[i]], ind + 2)],
                              ",\n")
                      \o "\n" \o repeat(" ", ind) \o "}"

(***************************************************************************)
(* logseq_query after its mode switch: the limit (lines 294-297) and the   *)
(* three output formats (lines 299-326).                                   *)
(***************************************************************************)
SummaryCap == 20
SummaryExcerpt == 100
NamesExcerpt == 50

\* Lines 295-297: results after the limit filters.limit (a number, or
\* undefined when the caller gave none).
ApplyLimit(rs, lim) ==
    IF Truthy(lim) /\ Len(rs) > lim.v THEN slice0(rs, lim.v) ELSE rs

\* A variant of NamesLine that reads the result without unwrapping it.
NamesLineOfRow(r) ==
    LET c   == Get(r, "content")
        cut == IF c.type = "string" THEN Str(substring0(c.v, NamesExcerpt)) ELSE Undef
    IN  ToStr(Or(Get(r, "block/name"),
              Or(Get(r, "block/original-name"),
              Or(Get(r, "name"),
              Or(Get(r, "originalName"),
              Or(cut, Str("Unknown")))))))

\* Lines 304-305: the name of one result in names mode.
NamesLine(r) ==
    LET item == Or(Index0(r), r)
        c    == Get(item, "content")
        cut  == IF c.type = "string" THEN Str(substring0(c.v, NamesExcerpt)) ELSE Undef
    IN  ToStr(Or(Get(item, "block/name"),
              Or(Get(item, "block/original-name"),
              Or(Get(item, "name"),
              Or(Get(item, "originalName"),
              Or(cut, Str("Unknown")))))))

\* Lines 311-319: what the forEach callback appends for result r at the
\* 0-based position i.
SummaryEntry(r, i) ==
    LET item    == Or(Index0(r), r)
        name    == Or(Get(item, "block/name"),
                   Or(Get(item, "block/original-name"),
                   Or(Get(item, "name"),
                   Or(Get(item, "originalName"), Str("")))))
        content == Or(Get(item, "block/content"), Or(Get(item, "content"), Str("")))
        marker  == Or(Get(item, "block/marker"), Or(Get(item, "marker"), Str("")))
    IN  (IF Truthy(name)
         THEN ToString(i + 1) \o ". [[" \o ToStr(name) \o "]]" ELSE "")
        \o (IF Truthy(marker) THEN " [" \o ToStr(marker) \o "]" ELSE "")
        \o (IF Truthy(content) /\ ~Truthy(name)
            THEN ToString(i + 1) \o ". "
                   \o substring0(ToStr(content), SummaryExcerpt) \o "..."
            ELSE "")
        \o "\n"

\* A variant of SummaryTrailer that also fires at exactly SummaryCap results.
SummaryTrailerFromCap(rs) ==
    IF Len(rs) >= SummaryCap
    THEN "\n... and " \o ToString(Len(rs) - SummaryCap) \o " more results"
    ELSE ""

\* Line 321.
SummaryTrailer(rs) ==
    IF Len(rs) > SummaryCap
    THEN "\n... and " \o ToString(Len(rs) - SummaryCap) \o " more results"
    ELSE ""

\* Lines 302-324.
FormatOutput(rs, mode) ==
    CASE mode = "names" ->
             join([i \in 1..Len(rs) |-> NamesLine(rs[i])], "\n")
      [] mode = "summary" ->
             LET shown == slice0(rs, SummaryCap)
             IN  "Found " \o ToString(Len(rs)) \o " results:\n\n"
                 \o join([i \in 1..Len(shown) |-> SummaryEntry(shown[i], i - 1)], "")
                 \o SummaryTrailer(rs)
      [] OTHER -> stringify(Arr(rs), 0)

(***************************************************************************)
(* The other places where a handler reads the records of a remote result.  *)
(***************************************************************************)
\* Array.prototype.filter is SelectSeq.

\* Lines 244-254: logseq_query journals keeps the journals whose day lies
\* in [start, end].  journalDay is a number of the form YYYYMMDD.
JournalInRange(j, start, end) ==
    LET page == Or(Index0(j), j)
        journalDay == Or(Get(page, "block/journal-day"), Get(page, "journalDay"))
    IN  IF ~Truthy(journalDay) THEN FALSE
        ELSE LET year  == journalDay.v \div 10000
                 month == ((journalDay.v % 10000) \div 100) - 1
                 day   == journalDay.v % 100
                 pageDate == [day |-> DaysFromCivil(year, month, day), ms |-> 0]
             IN  DateLE(start, pageDate) /\ DateLE(pageDate, end)

JournalsFilter(allJournals, start, end) ==
    SelectSeq(allJournals, LAMBDA j : JournalInRange(j, start, end))

\* Line 219: logseq_query pages with filters.journalOnly.
JournalOnlyKeep(p) ==
    \/ (Get(p, "journal?").type = "boolean" /\ Get(p, "journal?").v)
    \/ (~Nullish(Index0(p)) /\ Truthy(Get(Index0(p), "block/journal?")))

JournalOnlyFilter(rs) == SelectSeq(rs, JournalOnlyKeep)

\* Lines 392-394: logseq_read page, one line per linked reference.
BacklinkLine(ref) ==
    LET refPage  == Index0(ref)
        opt(key) == IF Nullish(refPage) THEN Undef ELSE Get(refPage, key)
        pageName == Or(opt("block/original-name"),
                    Or(opt("block/name"), Str("Unknown")))
    IN  "- [[" \o ToStr(pageName) \o "]]\n"

BacklinksCap == 20

\* Lines 389-399.
BacklinksSection(refs) ==
    IF Len(refs) > 0
    THEN "\n## Backlinks (" \o ToString(Len(refs)) \o ")\n\n"
         \o join([i \in 1..Len(slice0(refs, BacklinksCap)) |-> BacklinkLine(refs[i])], "")
         \o (IF Len(refs) > BacklinksCap
             THEN "- ... and " \o ToString(Len(refs) - BacklinksCap) \o " more\n"
             ELSE "")
    ELSE "\n## Backlinks\n\nNo backlinks found.\n"

\* Lines 858-873: logseq_analyze orphan_pages from the query's rows on.
\* threw is TRUE when reading p['block/journal?'] of an undefined p raised
\* a TypeError, which the handler's catch reports.
OrphanPagesOutput(orphans, lim) ==
    LET mapped == [i \in 1..Len(orphans) |-> Index0(orphans[i])]
    IN  IF \E i \in 1..Len(mapped) : Nullish(mapped[i])
        THEN [called |-> TRUE, threw |-> TRUE,
              value |-> "Analysis error: Cannot read properties of undefined (reading 'block/journal?')"]
        ELSE LET orphanList ==
                     slice0(SelectSeq(mapped, LAMBDA p : ~Truthy(Get(p, "block/journal?"))), lim)
                 head == "# Orphan Pages\n\n"
                           \o "*Pages with no incoming links from other pages*\n\n"
             IN  [called |-> TRUE, threw |-> FALSE,
                  value |->
                    IF Len(orphanList) = 0 THEN head \o "No orphan pages found.\n"
                    ELSE head \o "Found " \o ToString(Len(orphanList))
                           \o " orphan page(s):\n\n"
                           \o join([i \in 1..Len(orphanList) |->
                                      "- [[" \o ToStr(Or(Get(orphanList[i], "block/original-name"),
                                                         Get(orphanList[i], "block/name")))
                                        \o "]]\n"], "")]

\* Line 896: content.replace(/^(TODO|DOING|NOW|LATER|WAITING|DONE)\s*/i, '')
TaskWords == <<"todo", "doing", "now", "later", "waiting", "done">>
StripMarker(content) ==
    LET hits == SelectSeq(TaskWords, LAMBDA w : StartsWithLower(content, w))
    IN  IF hits = <<>> THEN content
        ELSE trimStart(SubSeq(content, Len(hits[1]) + 1, Len(content)))

TodoExcerpt == 80
TodoGroupCap == 10

\* Lines 884-885: the block and the status it is filed under.
TodoBlock(t) == Or(Index0(t), t)
TodoMarker(t) == ToStr(Or(Get(TodoBlock(t), "block/marker"), Str("UNKNOWN")))

RECURSIVE FirstSeen(_, _)
\* The keys of byStatus in the order of their first insertion.
FirstSeen(todos, seen) ==
    IF todos = <<>> THEN <<>>
    ELSE LET m == TodoMarker(Head(todos))
         IN  IF m \in seen THEN FirstSeen(Tail(todos), seen)
             ELSE <<m>> \o FirstSeen(Tail(todos), seen \cup {m})

\* Lines 895-897.
TodoLine(item) ==
    LET content == StripMarker(ToStr(Or(Get(item, "block/content"), Str(""))))
    IN  "- " \o substring0(content, TodoExcerpt)
             \o (IF Len(content) > TodoExcerpt THEN "..." ELSE "") \o "\n"

\* Lines 881-901: logseq_analyze todo_summary from the query's rows on.
TodoSummaryOutput(todos) ==
    LET statuses == FirstSeen(todos, {})
        group(st) ==
            LET items == SelectSeq([i \in 1..Len(todos) |-> TodoBlock(todos[i])],
                                LAMBDA b : ToStr(Or(Get(b, "block/marker"), Str("UNKNOWN"))) = st)
                shown == slice0(items, TodoGroupCap)
            IN  "## " \o st \o " (" \o ToString(Len(items)) \o ")\n\n"
                \o join([i \in 1..Len(shown) |-> TodoLine(shown[i])], "")
                \o (IF Len(items) > TodoGroupCap
                    THEN "- ... and " \o ToString(Len(items) - TodoGroupCap) \o " more\n"
                    ELSE "")
                \o "\n"
    IN  "# Task Summary\n\n**Total Tasks:** " \o ToString(Len(todos)) \o "\n\n"
        \o join([i \in 1..Len(statuses) |-> group(statuses[i])], "")

(***************************************************************************)
(* callLogseqApi (lines 28-52) and the remote store it talks to.           *)
(*                                                                         *)
(* The store maps a page name to [journal, blocks], blocks being a tree of *)
(* [uuid, content, properties, children].  A call is issued, and later     *)
(* answered: with a result, after the store applied it, or with a failure  *)
(* that leaves the store as it was.  A failure is a 401 answer, another    *)
(* non-2xx answer, or a failure of the transport.                          *)
(***************************************************************************)
LOGSEQ_API_URL == "http://127.0.0.1:12315/api"

\* callLogseqApi without its branch for the status 401.
ErrorMessageByStatus(kind) ==
    CASE kind = "401" -> "Logseq API error: 401 Unauthorized"
      [] kind = "500" -> "Logseq API error: 500 Internal Server Error"
      [] OTHER        -> "fetch failed"

\* error.message of what callLogseqApi throws (lines 40-48), and of the
\* TypeError fetch rejects with.
ErrorMessage(kind) ==
    CASE kind = "401" ->
             "Logseq API authentication failed (401 Unauthorized). "
             \o "Please verify:\n"
             \o "1. The HTTP API is enabled in Logseq (Settings > Features > HTTP APIs Server)\n"
             \o "2. Your token matches the one in Logseq's \"Authorization token\" setting\n"
             \o "3. Logseq is running and accessible at " \o LOGSEQ_API_URL
      [] kind = "500" -> "Logseq API error: 500 Internal Server Error"
      [] OTHER        -> "fetch failed"

FailureKinds == {"401", "500", "network"}

Uuid(n) == "65f0c1d2-0000-4000-8000-00000000000" \o ToString(n)

NewBlock(n, content) ==
    [uuid |-> Uuid(n), content |-> content, properties |-> <<>>, children |-> <<>>]

RECURSIVE HasBlock(_, _)
HasBlock(forest, uuid) ==
    \E i \in 1..Len(forest) :
        forest[i].uuid = uuid \/ HasBlock(forest[i].children, uuid)

RECURSIVE InsertChild(_, _, _)
InsertChild(forest, parent, blk) ==
    [i \in 1..Len(forest) |->
        IF forest[i].uuid = parent
        THEN [forest[i] EXCEPT !.children = Append(@, blk)]
        ELSE [forest[i] EXCEPT !.children = InsertChild(@, parent, blk)]]

RECURSIVE UpdateContent(_, _, _)
UpdateContent(forest, uuid, content) ==
    [i \in 1..Len(forest) |->
        IF forest[i].uuid = uuid
        THEN [forest[i] EXCEPT !.content = content]
        ELSE [forest[i] EXCEPT !.children = UpdateContent(@, uuid, content)]]

RECURSIVE RemoveBlock(_, _)
RemoveBlock(forest, uuid) ==
    LET kept == SelectSeq(forest, LAMBDA b : b.uuid # uuid)
    IN  [i \in 1..Len(kept) |->
            [kept[i] EXCEPT !.children = RemoveBlock(@, uuid)]]

RECURSIVE SetProperty(_, _, _, _)
SetProperty(forest, uuid, key, value) ==
    [i \in 1..Len(forest) |->
        IF forest[i].uuid = uuid
        THEN [forest[i] EXCEPT !.properties =
                  IF \E j \in 1..Len(@) : @[j][1] = key
                  THEN [j \in 1..Len(@) |-> IF @[j][1] = key THEN <<key, value>> ELSE @[j]]
                  ELSE Append(@, <<key, value>>)]
        ELSE [forest[i] EXCEPT !.children = SetProperty(@, uuid, key, value)]]

RECURSIVE DropProperty(_, _, _)
DropProperty(forest, uuid, key) ==
    [i \in 1..Len(forest) |->
        IF forest[i].uuid = uuid
        THEN [forest[i] EXCEPT !.properties = SelectSeq(@, LAMBDA e : e[1] # key)]
        ELSE [forest[i] EXCEPT !.children = DropProperty(@, uuid, key)]]

RECURSIVE FindInForest(_, _)
\* The blocks of the forest with that uuid, as a sequence.
FindInForest(forest, uuid) ==
    IF forest = <<>> THEN <<>>
    ELSE (IF Head(forest).uuid = uuid THEN <<Head(forest)>>
          ELSE FindInForest(Head(forest).children, uuid))
         \o FindInForest(Tail(forest), uuid)

RECURSIVE FindInPages(_, _, _)
FindInPages(ps, names, uuid) ==
    IF names = {} THEN <<>>
    ELSE LET n == CHOOSE x \in names : TRUE
         IN  FindInForest(ps[n].blocks, uuid) \o FindInPages(ps, names \ {n}, uuid)

FindBlock(ps, uuid) == FindInPages(ps, DOMAIN ps, uuid)

\* Whether some page of the store holds the block.
BlockExists(ps, uuid) == \E n \in DOMAIN ps : HasBlock(ps[n].blocks, uuid)

\* What a call answers when it succeeds: found tells a result from null.
Reply(found, uuid, bs, list) ==
    [ok |-> TRUE, error |-> "", found |-> found, uuid |-> uuid,
     blocks |-> bs, list |-> list]
Failure(kind) ==
    [ok |-> FALSE, error |-> ErrorMessage(kind), found |-> FALSE, uuid |-> "",
     blocks |-> <<>>, list |-> Null]
NoReply == Reply(FALSE, "", <<>>, Null)

\* The entry "journal?" of the properties a page is created with.
IsJournalProps(props) == \E i \in 1..Len(props) : props[i] = <<"journal?", "true">>

\* A remote call: the method and its arguments, a1 to a3 the strings in
\* argument order and props the entries of an object argument.
CallOf(method, a1, a2, a3, props) ==
    [method |-> method, a1 |-> a1, a2 |-> a2, a3 |-> a3, props |-> props]
NoCall == CallOf("", "", "", "", <<>>)

\* A page of the store as getPage and getAllPages return it.
PageObject(ps, n) ==
    Obj([id |-> Num(0), name |-> Str(toLowerCase(n)), originalName |-> Str(n),
         journalDay |-> Num(ps[n].journalDay)]
        @@ ("journal?" :> Bool(ps[n].journal)))

RECURSIVE PageList(_, _)
PageList(ps, names) ==
    IF names = {} THEN <<>>
    ELSE LET n == CHOOSE x \in names : \A y \in names : ps[x].order <= ps[y].order
         IN  <<PageObject(ps, n)>> \o PageList(ps, names \ {n})

\* The store after a call that succeeds, the next block number and the
\* result: [pages, nextId, reply].  A call that names a page or a block the
\* store does not hold changes nothing and answers null.  rows is what a
\* Datalog query or a linked-references lookup answers.
RemoteApply(c, ps, id, rows) ==
    LET same(reply) == [pages |-> ps, nextId |-> id, reply |-> reply]
        edit(f(_))  == [pages |-> [n \in DOMAIN ps |-> [ps[n] EXCEPT !.blocks = f(@)]],
                        nextId |-> id, reply |-> Reply(FALSE, "", <<>>, Null)]
    IN  CASE c.method = "logseq.Editor.getPage" ->
                 IF c.a1 \in DOMAIN ps
                 THEN same(Reply(TRUE, "", <<>>, PageObject(ps, c.a1)))
                 ELSE same(Reply(FALSE, "", <<>>, Null))
          [] c.method = "logseq.Editor.createPage" ->
                 IF c.a1 \in DOMAIN ps THEN same(Reply(TRUE, "", <<>>, Null))
                 ELSE [pages |-> ps @@ (c.a1 :>
                                   [journal |-> IsJournalProps(c.props),
                                    journalDay |-> 0, order |-> Cardinality(DOMAIN ps) + 1,
                                    blocks |-> <<>>]),
                       nextId |-> id, reply |-> Reply(TRUE, "", <<>>, Null)]
          [] c.method = "logseq.Editor.deletePage" ->
                 [pages |-> [n \in DOMAIN ps \ {c.a1} |-> ps[n]],
                  nextId |-> id, reply |-> Reply(FALSE, "", <<>>, Null)]
          [] c.method = "logseq.Editor.appendBlockInPage" ->
                 IF c.a1 \in DOMAIN ps
                 THEN [pages |-> [ps EXCEPT ![c.a1].blocks =
                                      Append(@, NewBlock(id, c.a2))],
                       nextId |-> id + 1, reply |-> Reply(TRUE, Uuid(id), <<>>, Null)]
                 ELSE same(Reply(FALSE, "", <<>>, Null))
          [] c.method = "logseq.Editor.insertBlock" ->
                 IF BlockExists(ps, c.a1)
                 THEN [pages |-> [n \in DOMAIN ps |-> [ps[n] EXCEPT !.blocks =
                                      InsertChild(@, c.a1, NewBlock(id, c.a2))]],
                       nextId |-> id + 1, reply |-> Reply(TRUE, Uuid(id), <<>>, Null)]
                 ELSE same(Reply(FALSE, "", <<>>, Null))
          [] c.method = "logseq.Editor.updateBlock" ->
                 edit(LAMBDA f : UpdateContent(f, c.a1, c.a2))
          [] c.method = "logseq.Editor.removeBlock" ->
                 edit(LAMBDA f : RemoveBlock(f, c.a1))
          [] c.method = "logseq.Editor.upsertBlockProperty" ->
                 edit(LAMBDA f : SetProperty(f, c.a1, c.a2, c.a3))
          [] c.method = "logseq.Editor.removeBlockProperty" ->
                 edit(LAMBDA f : DropProperty(f, c.a1, c.a2))
          [] c.method = "logseq.Editor.getPageBlocksTree" ->
                 IF c.a1 \in DOMAIN ps
                 THEN same(Reply(TRUE, "", ps[c.a1].blocks, Null))
                 ELSE same(Reply(FALSE, "", <<>>, Null))
          [] c.method = "logseq.Editor.getBlock" ->
                 same(Reply(BlockExists(ps, c.a1), c.a1, FindBlock(ps, c.a1), Null))
          [] c.method = "logseq.Editor.getAllPages" ->
                 same(Reply(TRUE, "", <<>>, Arr(PageList(ps, DOMAIN ps))))
          [] OTHER ->
                 \* logseq.DB.datascriptQuery, logseq.Editor.getPageLinkedReferences
                 same(Reply(TRUE, "", <<>>, rows))

(***************************************************************************)
(* formatJournalDate (lines 55-61) and the Date a target string parses to. *)
(***************************************************************************)
MonthShort == <<"jan", "feb", "mar", "apr", "may", "jun", "jul", "aug", "sep",
                "oct", "nov", "dec">>
DaySuffix == <<"th", "st", "nd", "rd", "th", "th", "th", "th", "th", "th">>

formatJournalDate(date) ==
    LET month  == MonthShort[getMonth(date) + 1]
        day    == getDate(date)
        year   == getFullYear(date)
        suffix == IF day >= 11 /\ day <= 13 THEN "th" ELSE DaySuffix[(day % 10) + 1]
    IN  month \o " " \o ToString(day) \o suffix \o ", " \o ToString(year)

Digits == "0123456789"
IsDigit(c) == \E i \in 1..Len(Digits) : SubSeq(Digits, i, i) = c
DigitValue(c) == (CHOOSE i \in 1..Len(Digits) : SubSeq(Digits, i, i) = c) - 1

RECURSIVE ParseDigits(_, _)
ParseDigits(str, acc) ==
    IF str = "" THEN acc
    ELSE ParseDigits(Tail(str), acc * 10 + DigitValue(Head(str)))

\* new Date(str) for the date-only form YYYY-MM-DD; any other string of the
\* model is no date (getTime() is NaN).
IsIsoDate(str) ==
    /\ Len(str) = 10
    /\ \A i \in {1, 2, 3, 4, 6, 7, 9, 10} : IsDigit(SubSeq(str, i, i))
    /\ SubSeq(str, 5, 5) = "-" /\ SubSeq(str, 8, 8) = "-"
    /\ ParseDigits(SubSeq(str, 6, 7), 0) \in 1..12
    /\ ParseDigits(SubSeq(str, 9, 10), 0) \in 1..31
DateFromIso(str) ==
    [day |-> DaysFromCivil(ParseDigits(SubSeq(str, 1, 4), 0),
                           ParseDigits(SubSeq(str, 6, 7), 0) - 1,
                           ParseDigits(SubSeq(str, 9, 10), 0)),
     ms |-> 0]

\* Lines 636-647: the journal page an append_to_journal target names.
JournalPageName(target, now) ==
    IF target = "today" THEN formatJournalDate(now)
    ELSE IF target = "yesterday"
         THEN formatJournalDate(setDate(now, getDate(now) - 1))
    ELSE IF IsIsoDate(target) THEN formatJournalDate(DateFromIso(target))
    ELSE target

(***************************************************************************)
(* String.prototype.split('\n'), and the lines a content is appended as.   *)
(***************************************************************************)
RECURSIVE splitLines(_)
splitLines(str) ==
    LET brk == {p \in 1..Len(str) : SubSeq(str, p, p) = "\n"}
    IN  IF brk = {} THEN <<str>>
        ELSE LET p == CHOOSE q \in brk : \A r \in brk : q <= r
             IN  <<SubSeq(str, 1, p - 1)>> \o splitLines(SubSeq(str, p + 1, Len(str)))

\* content.split('\n').filter(l => l.trim()) (lines 548, 621, 655)
NonBlankLines(content) == SelectSeq(splitLines(content), LAMBDA l : trim(l) # "")

\* The block id of a target: target.replace(/^\(\(|\)\)$/g, '')
StripParens(str) ==
    LET a == IF Len(str) >= 2 /\ SubSeq(str, 1, 2) = "((" 
             THEN SubSeq(str, 3, Len(str)) ELSE str
    IN  IF Len(a) >= 2 /\ SubSeq(a, Len(a) - 1, Len(a)) = "))"
        THEN SubSeq(a, 1, Len(a) - 2) ELSE a

HexChars == "0123456789abcdefABCDEF-"
\* /^[0-9a-f-]{8,}$/i.test(str)
LooksLikeBlockId(str) ==
    /\ Len(str) >= 8
    /\ \A i \in 1..Len(str) :
           \E j \in 1..Len(HexChars) : SubSeq(HexChars, j, j) = SubSeq(str, i, i)

(***************************************************************************)
(* A tool invocation.  The handler runs from one await to the next: it     *)
(* issues a remote call and waits, or it returns its text.  An invocation  *)
(* holds the request, where the handler stands (pc, k), what it keeps in   *)
(* its locals (name, items, uuid, out, rows), the answer of the call it    *)
(* awaited (last) and, once done, the text it returned (resp).             *)
(***************************************************************************)
NoProperties == [given |-> FALSE, entries |-> <<>>]
Properties(entries) == [given |-> TRUE, entries |-> entries]

\* A request with every optional parameter left out.
Request(tool, op, target) ==
    [tool |-> tool, op |-> op, target |-> target, content |-> Undef,
     properties |-> NoProperties, asJournal |-> FALSE, parentBlockId |-> Undef,
     tag |-> Undef, property |-> Undef, propertyValue |-> Undef,
     journalOnly |-> FALSE, dateRange |-> Undef, limit |-> Undef,
     output |-> Undef, includeContent |-> Undef, includeBacklinks |-> Undef,
     includeProperties |-> Undef, depth |-> Undef, focusTag |-> Undef]

IdleInvocation ==
    [st |-> "idle", req |-> Request("", "", Undef), pc |-> "", k |-> 0,
     name |-> "", items |-> <<>>, uuid |-> "", out |-> "", rows |-> Arr(<<>>),
     refs |-> <<>>,
     call |-> NoCall, last |-> NoReply, resp |-> ""]

\* An await on something that never settles: no call goes out.
AwaitUnsettled(v, c, pc) == [v EXCEPT !.st = "suspended", !.call = c, !.pc = pc]

\* await callLogseqApi(method, args): the handler waits at pc.
Await(v, c, pc) == [v EXCEPT !.st = "waiting", !.call = c, !.pc = pc]

\* return {content: [{type: 'text', text}]}
Return(v, txt) == [v EXCEPT !.st = "done", !.call = NoCall, !.resp = txt]

(***************************************************************************)
(* logseq_write (lines 528-725).                                           *)
(***************************************************************************)
\* {...(properties || {}), 'journal?': true} (lines 534-537)
WithJournalFlag(entries) ==
    IF \E i \in 1..Len(entries) : entries[i][1] = "journal?"
    THEN [i \in 1..Len(entries) |->
             IF entries[i][1] = "journal?" THEN <<"journal?", "true">> ELSE entries[i]]
    ELSE Append(entries, <<"journal?", "true">>)

\* A catch that swallows the failure of an append and goes on with the
\* next line.
WriteCatchAndGoOn(v) ==
    IF v.pc = "append" /\ v.k < Len(v.items)
    THEN Await([v EXCEPT !.k = @ + 1],
               CallOf("logseq.Editor.appendBlockInPage", v.name, v.items[v.k + 1], "", <<>>),
               "append")
    ELSE Return(v, "Write error: " \o v.last.error)

\* Lines 722-724.
WriteCatch(v) == Return(v, "Write error: " \o v.last.error)

\* The text a write returns when its loop is through (lines 554, 588, 626,
\* 660, 677, 685, 705, 712).
WriteResult(v) ==
    LET n == ToString(Len(v.items))
    IN  CASE v.req.op = "create_page" ->
                 "Page \"" \o v.name \o "\" created successfully."
          [] v.req.op = "append_to_page" ->
                 "Added " \o n \o " block(s) to \"" \o v.name \o "\"."
          [] v.req.op = "append_to_journal" ->
                 "Added " \o n \o " block(s) to journal \"" \o v.name \o "\"."
          [] v.req.op = "create_block" ->
                 "Block created"
                 \o (IF v.uuid # "" THEN " (" \o substring0(v.uuid, 8) \o "...)" ELSE "")
                 \o "."
          [] v.req.op = "set_property" ->
                 "Set " \o n \o " property(ies) on "
                 \o (IF v.pc = "block_property" THEN "block."
                     ELSE "page \"" \o v.name \o "\".")
          [] OTHER ->
                 "Removed " \o n \o " property(ies) from "
                 \o (IF v.pc = "block_property" THEN "block."
                     ELSE "page \"" \o v.name \o "\".")

\* The loop taking the lines from the last to the first.
AppendLoopBackwards(v) ==
    IF v.k < Len(v.items)
    THEN Await([v EXCEPT !.k = @ + 1],
               CallOf("logseq.Editor.appendBlockInPage", v.name,
                      v.items[Len(v.items) - v.k], "", <<>>),
               "append")
    ELSE Return(v, WriteResult(v))

\* for (const line of lines) await appendBlockInPage(name, line): the next
\* turn of the loop, or the result when the lines are through.
AppendLoop(v) ==
    IF v.k < Len(v.items)
    THEN Await([v EXCEPT !.k = @ + 1],
               CallOf("logseq.Editor.appendBlockInPage", v.name, v.items[v.k + 1], "", <<>>),
               "append")
    ELSE Return(v, WriteResult(v))

\* for (const [key, value] of Object.entries(properties)) on block v.uuid:
\* upsertBlockProperty, or removeBlockProperty for remove_property.
PropertyLoop(v, pc) ==
    IF v.k < Len(v.items)
    THEN Await([v EXCEPT !.k = @ + 1],
               IF v.req.op = "remove_property"
               THEN CallOf("logseq.Editor.removeBlockProperty", v.uuid,
                           v.items[v.k + 1][1], "", <<>>)
               ELSE CallOf("logseq.Editor.upsertBlockProperty", v.uuid,
                           v.items[v.k + 1][1], v.items[v.k + 1][2], <<>>),
               pc)
    ELSE Return([v EXCEPT !.pc = pc], WriteResult([v EXCEPT !.pc = pc]))

\* append_to_journal creating its page as a plain page.
EnsureJournalPagePlain(v) ==
    IF ~v.last.found
    THEN Await(v, CallOf("logseq.Editor.createPage", v.name, "", "", <<>>), "ensured")
    ELSE AppendLoop(v)

\* Lines 651-653.
EnsureJournalPage(v) ==
    IF ~v.last.found
    THEN Await(v, CallOf("logseq.Editor.createPage", v.name, "", "",
                         <<<<"journal?", "true">>>>), "ensured")
    ELSE AppendLoop(v)

\* Lines 617-619.
EnsurePage(v) ==
    IF ~v.last.found
    THEN Await(v, CallOf("logseq.Editor.createPage", v.name, "", "", <<>>), "ensured")
    ELSE AppendLoop(v)

\* The handler from its entry to its first await or return.
\* The validation that accepts an empty properties object.
NoKeysWhenAbsent(properties) == ~properties.given

\* !properties || Object.keys(properties).length === 0 (lines 665 and 694)
NoKeys(properties) == ~properties.given \/ Len(properties.entries) = 0

WriteStart(v, now) ==
    LET r       == v.req
        target  == r.target.v
        blockId == StripParens(target)
        lines   == IF Truthy(r.content) THEN NonBlankLines(r.content.v) ELSE <<>>
        noProps == NoKeys(r.properties)
    IN  CASE r.op = "create_page" ->
                 Await([v EXCEPT !.name = target, !.items = lines],
                       CallOf("logseq.Editor.getPage", target, "", "", <<>>), "page_checked")
          [] r.op = "delete_page" ->
                 Await([v EXCEPT !.name = target],
                       CallOf("logseq.Editor.deletePage", target, "", "", <<>>), "page_deleted")
          [] r.op = "create_block" ->
                 IF ~Truthy(r.content)
                 THEN Return(v, "Error: content is required for create_block")
                 ELSE IF Truthy(r.parentBlockId)
                 THEN Await([v EXCEPT !.items = r.properties.entries],
                            CallOf("logseq.Editor.insertBlock",
                                   StripParens(r.parentBlockId.v), r.content.v, "", <<>>),
                            "block_created")
                 ELSE Await([v EXCEPT !.items = r.properties.entries],
                            CallOf("logseq.Editor.appendBlockInPage", target,
                                   r.content.v, "", <<>>),
                            "block_created")
          [] r.op = "update_block" ->
                 IF ~Truthy(r.content)
                 THEN Return(v, "Error: content is required for update_block")
                 ELSE Await([v EXCEPT !.name = blockId],
                            CallOf("logseq.Editor.updateBlock", blockId, r.content.v, "", <<>>),
                            "block_updated")
          [] r.op = "delete_block" ->
                 Await([v EXCEPT !.name = blockId],
                       CallOf("logseq.Editor.removeBlock", blockId, "", "", <<>>),
                       "block_deleted")
          [] r.op = "append_to_page" ->
                 IF ~Truthy(r.content)
                 THEN Return(v, "Error: content is required for append_to_page")
                 ELSE Await([v EXCEPT !.name = target, !.items = lines],
                            CallOf("logseq.Editor.getPage", target, "", "", <<>>),
                            "page_looked_up")
          [] r.op = "append_to_journal" ->
                 IF ~Truthy(r.content)
                 THEN Return(v, "Error: content is required for append_to_journal")
                 ELSE Await([v EXCEPT !.name = JournalPageName(target, now),
                                      !.items = lines],
                            CallOf("logseq.Editor.getPage", JournalPageName(target, now),
                                   "", "", <<>>),
                            "journal_looked_up")
          [] r.op = "set_property" /\ noProps ->
                 Return(v, "Error: properties required for set_property")
          [] r.op = "remove_property" /\ noProps ->
                 Return(v, "Error: properties required (specify keys to remove)")
          [] OTHER ->
                 IF LooksLikeBlockId(blockId)
                 THEN PropertyLoop([v EXCEPT !.uuid = blockId,
                                             !.items = r.properties.entries],
                                   "block_property")
                 ELSE Await([v EXCEPT !.name = target, !.items = r.properties.entries],
                            CallOf("logseq.Editor.getPageBlocksTree", target, "", "", <<>>),
                            "tree_read")

\* create_page going on to create the page whatever getPage answered.
PageCheckedCreatesAnyway(v) ==
    Await(v, CallOf("logseq.Editor.createPage", v.name, "", "",
                    IF v.req.asJournal
                    THEN WithJournalFlag(v.req.properties.entries)
                    ELSE v.req.properties.entries),
          "ensured")

\* create_page after its getPage (lines 540-545).
PageChecked(v) ==
    IF v.last.found
    THEN Return(v, "Page \"" \o v.name
                   \o "\" already exists. Use append_to_page to add content.")
    ELSE Await(v, CallOf("logseq.Editor.createPage", v.name, "", "",
                         IF v.req.asJournal
                         THEN WithJournalFlag(v.req.properties.entries)
                         ELSE v.req.properties.entries),
               "ensured")

\* The handler from the answer of the call it awaited at v.pc to its next
\* await or return.
WriteResume(v) ==
    CASE v.pc = "page_checked" -> PageChecked(v)
      [] v.pc = "page_looked_up"    -> EnsurePage(v)
      [] v.pc = "journal_looked_up" -> EnsureJournalPage(v)
      [] v.pc \in {"ensured", "append"} -> AppendLoop(v)
      [] v.pc = "page_deleted" -> Return(v, "Page \"" \o v.name \o "\" deleted.")
      [] v.pc = "block_updated" ->
             Return(v, "Block " \o substring0(v.name, 8) \o "... updated.")
      [] v.pc = "block_deleted" ->
             Return(v, "Block " \o substring0(v.name, 8) \o "... deleted.")
      [] v.pc = "block_created" ->
             IF v.req.properties.given /\ v.last.found /\ v.last.uuid # ""
             THEN PropertyLoop([v EXCEPT !.uuid = v.last.uuid], "set_on_new_block")
             ELSE Return(v, WriteResult([v EXCEPT !.uuid = v.last.uuid, !.items = <<>>]))
      [] v.pc = "tree_read" ->
             IF v.last.found /\ Len(v.last.blocks) > 0 /\ v.last.blocks[1].uuid # ""
             THEN PropertyLoop([v EXCEPT !.uuid = v.last.blocks[1].uuid], "page_property")
             ELSE IF v.req.op = "set_property"
             THEN Return(v, "Page \"" \o v.name \o "\" has no blocks to set properties on.")
             ELSE Return(v, "Page \"" \o v.name \o "\" has no blocks.")
      [] OTHER -> PropertyLoop(v, v.pc)

WriteStep(v, now) ==
    IF v.pc = "" THEN WriteStart(v, now)
    ELSE IF ~v.last.ok THEN WriteCatch(v)
    ELSE WriteResume(v)

(***************************************************************************)
(* buildDatalogQuery (lines 132-166).  params holds a JavaScript value per *)
(* parameter, undefined for one that is not given; now is Date.now() as a  *)
(* day and the milliseconds into it.                                       *)
(***************************************************************************)
NoParams ==
    [property |-> Undef, value |-> Undef, text |-> Undef, tag |-> Undef,
     days |-> Undef, page |-> Undef, custom |-> Undef]

\* ${x?.toLowerCase()} for a string or undefined x
LowerOrUndefined(x) == IF x.type = "string" THEN toLowerCase(x.v) ELSE ToStr(x)

\* The decimal text of day * 86400000 + ms, for a day since the epoch.
EpochMsText(day, ms) ==
    LET high == day * 864 + (ms \div 100000)
        low  == ToString(100000 + (ms % 100000))
    IN  IF high = 0 THEN ToString(ms)
        ELSE ToString(high) \o SubSeq(low, 2, 6)

QueryCatalog ==
    {"pages", "pages_with_property", "todos", "blocks_with_text", "pages_with_tag",
     "blocks_with_tag", "journals", "recent_pages", "orphan_pages", "backlinks"}

QueryTemplate(queryType, params, now) ==
    CASE queryType = "pages" ->
             "[:find (pull ?p [*]) :where [?p :block/name]]"
      [] queryType = "pages_with_property" ->
             "[:find (pull ?p [*]) :where [?p :block/properties ?props] [(get ?props :"
             \o ToStr(params.property) \o ") ?v] [(= ?v \"" \o ToStr(params.value) \o "\")]]"
      [] queryType = "todos" ->
             "[:find (pull ?b [*]) :where [?b :block/marker ?m] "
             \o "[(contains? #{\"TODO\" \"DOING\" \"NOW\" \"LATER\" \"WAITING\"} ?m)]]"
      [] queryType = "blocks_with_text" ->
             "[:find (pull ?b [*]) :where [?b :block/content ?c] [(clojure.string/includes? ?c \""
             \o ToStr(params.text) \o "\")]]"
      [] queryType = "pages_with_tag" ->
             "[:find (pull ?p [*]) :where [?p :block/tags ?t] [?t :block/name \""
             \o LowerOrUndefined(params.tag) \o "\"]]"
      [] queryType = "blocks_with_tag" ->
             "[:find (pull ?b [*]) :where [?b :block/refs ?r] [?r :block/name \""
             \o LowerOrUndefined(params.tag) \o "\"]]"
      [] queryType = "journals" ->
             "[:find (pull ?p [*]) :where [?p :block/journal? true]]"
      [] queryType = "recent_pages" ->
             "[:find (pull ?p [*]) :where [?p :block/updated-at ?t] [(> ?t "
             \o EpochMsText(now.day - (IF Truthy(params.days) THEN params.days.v ELSE 7),
                            now.ms)
             \o ")]]"
      [] queryType = "orphan_pages" ->
             "[:find (pull ?p [*]) :where [?p :block/name] (not [?b :block/refs ?p])]"
      [] queryType = "backlinks" ->
             "[:find (pull ?p [*]) :where [?b :block/refs ?target] [?target :block/name \""
             \o LowerOrUndefined(params.page) \o "\"] [?b :block/page ?p]]"

\* queries is an object literal too: queries[queryType] finds the catalog's
\* templates and what Object.prototype lends.
buildDatalogQuery(queryType, params, now) ==
    IF queryType \in QueryCatalog THEN Str(QueryTemplate(queryType, params, now))
    ELSE IF queryType \in ObjectPrototypeFunctions THEN [type |-> "function"]
    ELSE IF queryType = "__proto__" THEN Obj([id |-> Num(0)])
    ELSE Or(params.custom, Str(QueryTemplate("pages", params, now)))

TagsCountQuery ==
    "[:find ?name (count ?b) :where [?b :block/refs ?t] [?t :block/name ?name]]"
MarkersCountQuery == "[:find ?m (count ?b) :where [?b :block/marker ?m]]"

(***************************************************************************)
(* logseq_query (lines 193-330).                                           *)
(***************************************************************************)
Datascript(query) == CallOf("logseq.DB.datascriptQuery", query, "", "", <<>>)

\* String.prototype.includes
Includes(str, sub) ==
    \E p \in 0..(Len(str) - Len(sub)) : SubSeq(str, p + 1, p + Len(sub)) = sub

\* The message of the TypeError that reading a property of null raises.
NullRead(prop) == "Cannot read properties of null (reading '" \o prop \o "')"

\* A handler without its catch: the error leaves the handler.
QueryRethrow(v, message) == [v EXCEPT !.st = "thrown", !.call = NoCall]

\* Lines 327-329.
QueryCatch(v, message) == Return(v, "Query error: " \o message)

\* Lines 294-326: the limit, the formatting and the return.
QueryFinish(v, rs) ==
    LET mode == IF v.req.output.type = "undefined" THEN "summary" ELSE v.req.output.v
    IN  IF rs.type = "null"
        THEN IF Truthy(v.req.limit) THEN QueryCatch(v, NullRead("length"))
             ELSE IF mode = "names" THEN QueryCatch(v, NullRead("map"))
             ELSE IF mode = "summary" THEN QueryCatch(v, NullRead("length"))
             ELSE Return(v, "null")
        ELSE Return(v, FormatOutput(ApplyLimit(rs.v, v.req.limit), mode))

\* Lines 217-220.
QueryPagesFinish(v, rs) ==
    IF ~v.req.journalOnly THEN QueryFinish(v, rs)
    ELSE IF rs.type = "null" THEN QueryCatch(v, NullRead("filter"))
    ELSE QueryFinish(v, Arr(JournalOnlyFilter(rs.v)))

QueryStart(v, now) ==
    LET r     == v.req
        query == r.target
        ask(queryType, params) ==
            Await(v, Datascript(buildDatalogQuery(queryType, params, now).v), "rows")
    IN  CASE r.op = "pages" ->
                 IF Truthy(r.tag)
                 THEN ask("pages_with_tag", [NoParams EXCEPT !.tag = r.tag])
                 ELSE IF Truthy(r.property) /\ Truthy(r.propertyValue)
                 THEN ask("pages_with_property",
                          [NoParams EXCEPT !.property = r.property,
                                           !.value = r.propertyValue])
                 ELSE Await(v, CallOf("logseq.Editor.getAllPages", "", "", "", <<>>),
                            "all_pages")
          [] r.op = "blocks" ->
                 IF Truthy(query)
                 THEN ask("blocks_with_text", [NoParams EXCEPT !.text = query])
                 ELSE IF Truthy(r.tag)
                 THEN ask("blocks_with_tag", [NoParams EXCEPT !.tag = r.tag])
                 ELSE QueryFinish(v, Arr(<<>>))
          [] r.op = "todos" -> ask("todos", NoParams)
          [] r.op = "journals" ->
                 IF parseDateRange(ToStr(Or(r.dateRange, Str("this week"))), now).threw
                 THEN QueryCatch(v, "ranges[normalizedRange] is not a function")
                 ELSE Await(v, Datascript(buildDatalogQuery("journals", NoParams, now).v),
                            "journals")
          [] r.op = "backlinks" ->
                 IF ~Truthy(query)
                 THEN Return(v, "Error: backlinks mode requires a page name in the query parameter")
                 ELSE Await(v, CallOf("logseq.Editor.getPageLinkedReferences",
                                      query.v, "", "", <<>>),
                            "linked_references")
          [] r.op = "recent" -> ask("recent_pages", [NoParams EXCEPT !.days = Num(7)])
          [] r.op = "search" ->
                 IF ~Truthy(query) THEN Return(v, "Error: search mode requires a query")
                 ELSE ask("blocks_with_text", [NoParams EXCEPT !.text = query])
          [] OTHER ->
                 IF ~Truthy(query)
                 THEN Return(v, "Error: datalog mode requires a Datalog query string")
                 ELSE Await(v, Datascript(query.v), "datalog")

\* A backlinks lookup that gives up when getPageLinkedReferences fails.
BacklinksFailedNoFallback(v, now) == QueryCatch(v, v.last.error)

\* Lines 265-269: "Fallback to Datalog query".
BacklinksFailed(v, now) ==
    Await(v, Datascript(buildDatalogQuery("backlinks",
                                          [NoParams EXCEPT !.page = v.req.target], now).v),
          "datalog")

QueryResume(v, now) ==
    CASE v.pc = "rows" ->
             IF v.req.op = "pages" THEN QueryPagesFinish(v, v.last.list)
             ELSE QueryFinish(v, v.last.list)
      [] v.pc = "all_pages" ->
             LET allPages == v.last.list
                 query    == v.req.target
             IN  IF ~Truthy(query) THEN QueryPagesFinish(v, allPages)
                 ELSE IF allPages.type = "null" THEN QueryCatch(v, NullRead("filter"))
                 ELSE QueryPagesFinish(v, Arr(SelectSeq(allPages.v,
                          LAMBDA p : LET name == Get(p, "name")
                                     IN  /\ name.type = "string"
                                         /\ Includes(toLowerCase(name.v),
                                                     toLowerCase(query.v)))))
      [] v.pc = "journals" ->
             LET range == parseDateRange(ToStr(Or(v.req.dateRange, Str("this week"))), now)
             IN  IF v.last.list.type = "null" THEN QueryCatch(v, NullRead("filter"))
                 ELSE QueryFinish(v, Arr(JournalsFilter(v.last.list.v,
                                                        range.start, range.end)))
      [] v.pc = "linked_references" -> QueryFinish(v, Or(v.last.list, Arr(<<>>)))
      [] OTHER -> QueryFinish(v, v.last.list)

QueryStep(v, now) ==
    IF v.pc = "" THEN QueryStart(v, now)
    ELSE IF ~v.last.ok
         THEN IF v.pc = "linked_references" THEN BacklinksFailed(v, now)
              ELSE QueryCatch(v, v.last.error)
    ELSE QueryResume(v, now)

(***************************************************************************)
(* logseq_read (lines 353-496).                                            *)
(***************************************************************************)
\* Date.prototype.toLocaleDateString() in the en-US locale
toLocaleDateString(date) ==
    ToString(getMonth(date) + 1) \o "/" \o ToString(getDate(date)) \o "/"
    \o ToString(getFullYear(date))

RECURSIVE InsertByCount(_, _)
InsertByCount(sorted, pair) ==
    IF sorted = <<>> THEN <<pair>>
    ELSE IF Head(sorted)[2] >= pair[2]
         THEN <<Head(sorted)>> \o InsertByCount(Tail(sorted), pair)
         ELSE <<pair>> \o sorted

RECURSIVE SortByCountDesc(_)
\* Array.prototype.sort((a, b) => b[1] - a[1]) on pairs <<item, number>>:
\* the larger number first, equal numbers in their old order.
SortByCountDesc(pairs) ==
    IF pairs = <<>> THEN <<>>
    ELSE InsertByCount(SortByCountDesc(SubSeq(pairs, 1, Len(pairs) - 1)),
                       pairs[Len(pairs)])

RECURSIVE Links(_)
\* The captures of /\[\[(.*?)\]\]/g in str, in order; "." meets no line break.
Links(str) ==
    IF Len(str) < 4 THEN <<>>
    ELSE IF SubSeq(str, 1, 2) # "[["
    THEN Links(Tail(str))
    ELSE LET ends == {q \in 3..(Len(str) - 1) :
                         /\ SubSeq(str, q, q + 1) = "]]"
                         /\ \A p \in 3..(q - 1) : SubSeq(str, p, p) # "\n"}
         IN  IF ends = {} THEN Links(Tail(str))
             ELSE LET q == CHOOSE e \in ends : \A f \in ends : e <= f
                  IN  <<SubSeq(str, 3, q - 1)>> \o Links(SubSeq(str, q + 2, Len(str)))

RECURSIVE CountRefs(_, _)
\* pageRefs[refPage] = (pageRefs[refPage] || 0) + 1 for every link (lines
\* 472-475): pairs <<name, count>> in the order the names came first.
CountRefs(refs, names) ==
    IF names = <<>> THEN refs
    ELSE LET n == Head(names)
         IN  CountRefs(IF \E i \in 1..Len(refs) : refs[i][1] = n
                       THEN [i \in 1..Len(refs) |->
                                IF refs[i][1] = n THEN <<n, refs[i][2] + 1>> ELSE refs[i]]
                       ELSE Append(refs, <<n, 1>>),
                       Tail(names))

TopReferencedCap == 10

\* Lines 480-486.
TopReferenced(refs) ==
    LET refEntries == SortByCountDesc(refs)
        shown      == slice0(refEntries, TopReferencedCap)
    IN  IF Len(refEntries) > 0
        THEN "\n## Top Referenced Pages\n\n"
             \o join([i \in 1..Len(shown) |->
                        "- [[" \o shown[i][1] \o "]] (" \o ToString(shown[i][2]) \o "x)\n"], "")
        ELSE ""

\* An option with its default (line 355).
OptionOr(x, default) == IF x.type = "undefined" THEN default ELSE x.v

\* Lines 493-495.
ReadCatch(v, message) == Return(v, "Read error: " \o message)

\* Lines 386-403, up to the lookup of the linked references.
ReadPageBacklinks(v) ==
    IF OptionOr(v.req.includeBacklinks, FALSE)
    THEN Await(v, CallOf("logseq.Editor.getPageLinkedReferences", v.req.target.v,
                         "", "", <<>>), "references")
    ELSE Return(v, v.out)

\* Lines 400-402.
BacklinksUnavailable(v) ==
    Return(v, v.out \o "\n## Backlinks\n\nCould not fetch backlinks.\n")

\* Lines 442-449.
\* A filter that keeps every journal page, whatever its day.
JournalPageOfAnyDay(p, start, end) ==
    Truthy(Get(p, "journal?")) /\ Truthy(Get(p, "journalDay"))

\* Lines 442-449: whether the filter keeps the page p.
JournalPageInRange(p, start, end) ==
    LET journalDay == Get(p, "journalDay")
    IN  IF ~Truthy(Get(p, "journal?")) \/ ~Truthy(journalDay) THEN FALSE
        ELSE LET year  == journalDay.v \div 10000
                 month == ((journalDay.v % 10000) \div 100) - 1
                 day   == journalDay.v % 100
                 pageDate == [day |-> DaysFromCivil(year, month, day), ms |-> 0]
             IN  DateLE(start, pageDate) /\ DateLE(pageDate, end)

\* Lines 441-450: the journal pages of the range, the most recent first.
JournalPages(allPages, start, end) ==
    LET inRange == SelectSeq(allPages, LAMBDA p : JournalPageInRange(p, start, end))
        sorted  == SortByCountDesc([i \in 1..Len(inRange) |->
                                       <<inRange[i], Get(inRange[i], "journalDay").v>>])
    IN  [i \in 1..Len(sorted) |-> sorted[i][1]]

RECURSIVE JournalHeadings(_)
\* Lines 462-463 for every page, when the content is left out.
JournalHeadings(ps) ==
    IF ps = <<>> THEN ""
    ELSE "## " \o ToStr(Get(Head(ps), "originalName")) \o "\n\n" \o JournalHeadings(Tail(ps))

\* Lines 462-486: the next journal page of the loop, or the return.
JournalLoop(v) ==
    IF v.k < Len(v.items)
    THEN LET page == v.items[v.k + 1]
         IN  Await([v EXCEPT !.k = @ + 1,
                             !.out = @ \o "## " \o ToStr(Get(page, "originalName")) \o "\n\n"],
                   CallOf("logseq.Editor.getPageBlocksTree", ToStr(Get(page, "name")),
                          "", "", <<>>),
                   "journal_tree")
    ELSE Return(v, v.out \o TopReferenced(v.refs))

ReadStart(v, now) ==
    LET identifier == v.req.target.v
        blockId    == StripParens(identifier)
    IN  CASE v.req.op = "page" ->
                 Await(v, CallOf("logseq.Editor.getPage", identifier, "", "", <<>>), "page")
          [] v.req.op = "block" ->
                 Await([v EXCEPT !.name = blockId],
                       CallOf("logseq.Editor.getBlock", blockId, "", "",
                              <<<<"includeChildren", "true">>>>), "block")
          [] OTHER ->
                 IF parseDateRange(identifier, now).threw
                 THEN ReadCatch(v, "ranges[normalizedRange] is not a function")
                 ELSE Await(v, CallOf("logseq.Editor.getAllPages", "", "", "", <<>>),
                            "journal_pages")

ReadResume(v, now) ==
    CASE v.pc = "page" ->
             IF ~v.last.found
             THEN Return(v, "Page \"" \o v.req.target.v \o "\" not found.")
             ELSE LET page == v.last.list
                      w == [v EXCEPT !.out =
                               "# " \o ToStr(Or(Get(page, "originalName"), Get(page, "name")))
                               \o "\n\n"]
                  IN  IF OptionOr(v.req.includeContent, TRUE)
                      THEN Await(w, CallOf("logseq.Editor.getPageBlocksTree",
                                           v.req.target.v, "", "", <<>>), "tree")
                      ELSE ReadPageBacklinks(w)
      [] v.pc = "tree" ->
             ReadPageBacklinks(
                 IF v.last.found /\ Len(v.last.blocks) > 0
                 THEN [v EXCEPT !.out = @ \o "## Content\n\n" \o processBlocks(v.last.blocks, 0)]
                 ELSE v)
      [] v.pc = "references" ->
             Return(v, v.out \o BacklinksSection(IF v.last.list.type = "array"
                                                 THEN v.last.list.v ELSE <<>>))
      [] v.pc = "block" ->
             IF ~v.last.found
             THEN Return(v, "Block \"" \o v.name \o "\" not found.")
             ELSE LET block == v.last.blocks[1]
                  IN  Return(v,
                        "## Block: " \o substring0(v.name, 8) \o "...\n\n"
                        \o "**Content:** " \o block.content \o "\n"
                        \o (IF OptionOr(v.req.includeProperties, TRUE)
                            THEN "\n### Properties\n"
                                 \o join([i \in 1..Len(block.properties) |->
                                            "- " \o block.properties[i][1] \o ":: "
                                            \o block.properties[i][2] \o "\n"], "")
                            ELSE "")
                        \o (IF OptionOr(v.req.includeContent, TRUE) /\ Len(block.children) > 0
                            THEN "\n### Children\n\n" \o processBlocks(block.children, 0)
                            ELSE ""))
      [] v.pc = "journal_pages" ->
             LET range == parseDateRange(v.req.target.v, now)
                 journalPages == JournalPages(v.last.list.v, range.start, range.end)
                 head == "# " \o range.title \o "\n\n*" \o toLocaleDateString(range.start)
                         \o " - " \o toLocaleDateString(range.end) \o "*\n\n"
             IN  IF Len(journalPages) = 0
                 THEN Return(v, head \o "No journal entries found for this period.\n")
                 ELSE IF OptionOr(v.req.includeContent, TRUE)
                 THEN JournalLoop([v EXCEPT !.out = head, !.items = journalPages, !.k = 0])
                 ELSE Return(v, head \o JournalHeadings(journalPages))
      [] OTHER ->
             \* journal_tree
             LET blockText == processBlocks(v.last.blocks, 0)
             IN  JournalLoop([v EXCEPT !.out = @ \o blockText \o "\n",
                                       !.refs = CountRefs(@, Links(blockText))])

ReadStep(v, now) ==
    IF v.pc = "" THEN ReadStart(v, now)
    ELSE IF ~v.last.ok
         THEN IF v.pc = "references" THEN BacklinksUnavailable(v)
              ELSE ReadCatch(v, v.last.error)
    ELSE ReadResume(v, now)

(***************************************************************************)
(* logseq_analyze (lines 746-966).  The pages of the store carry no        *)
(* updatedAt, so no page passes the filters of lines 801 and 938.          *)
(***************************************************************************)
AnalyzeDefaultLimit == 20
TopTagsCap == 10
KnowledgeGapsCap == 100
BarUnit == 5
BarCap == 20

\* Lines 963-965.
AnalyzeCatch(v, message) == Return(v, "Analysis error: " \o message)

\* t[0] and t[1] of a row [name, count]
RowName(t)  == ToStr(Index0(t))
RowCount(t) == IF t.type = "array" /\ Len(t.v) > 1 THEN t.v[2] ELSE Undef

\* rows.sort((a, b) => b[1] - a[1])
SortRowsDesc(rows) ==
    LET sorted == SortByCountDesc([i \in 1..Len(rows) |-> <<rows[i], RowCount(rows[i]).v>>])
    IN  [i \in 1..Len(sorted) |-> sorted[i][1]]

\* Lines 774-811, from the three results on.
GraphOverviewOutput(allPages, tagsQuery, todosQuery) ==
    LET journals     == SelectSeq(allPages, LAMBDA p : Truthy(Get(p, "journal?")))
        regularPages == SelectSeq(allPages, LAMBDA p : ~Truthy(Get(p, "journal?")))
        topTags      == slice0(SortRowsDesc(tagsQuery), TopTagsCap)
    IN  "# Graph Overview\n\n"
        \o "## Page Statistics\n"
        \o "- **Total Pages:** " \o ToString(Len(allPages)) \o "\n"
        \o "- **Regular Pages:** " \o ToString(Len(regularPages)) \o "\n"
        \o "- **Journal Pages:** " \o ToString(Len(journals)) \o "\n\n"
        \o (IF Len(tagsQuery) > 0
            THEN "## Top Tags\n"
                 \o join([i \in 1..Len(topTags) |->
                            "- #" \o RowName(topTags[i]) \o " ("
                            \o ToStr(RowCount(topTags[i])) \o " references)\n"], "")
                 \o "\n"
            ELSE "")
        \o (IF Len(todosQuery) > 0
            THEN "## Task Status\n"
                 \o join([i \in 1..Len(todosQuery) |->
                            "- " \o RowName(todosQuery[i]) \o ": "
                            \o ToStr(RowCount(todosQuery[i])) \o " items\n"], "")
                 \o "\n"
            ELSE "")

\* Lines 764 and 772: catch { tagsQuery = [] }, catch { todosQuery = [] }.
CountQueryFailed(v) == [v EXCEPT !.last = Reply(TRUE, "", <<>>, Arr(<<>>))]

\* Lines 822-832: the next page of the loop, or lines 834-849.
KnowledgeGapsLoop(v) ==
    IF v.k < Len(v.items)
    THEN Await([v EXCEPT !.k = @ + 1],
               CallOf("logseq.Editor.getPageBlocksTree", ToStr(Get(v.items[v.k + 1], "name")),
                      "", "", <<>>),
               "gap_tree")
    ELSE LET gapPages == slice0(SelectSeq(v.refs, LAMBDA p : p[2] = 0),
                                OptionOr(v.req.limit, AnalyzeDefaultLimit))
         IN  Return(v, "# Knowledge Gap Analysis\n\n"
                       \o "## Pages with No Outgoing Links\n"
                       \o "*These pages don't connect to other knowledge - consider adding links*\n\n"
                       \o (IF Len(gapPages) = 0
                           THEN "No isolated pages found. Great connectivity!\n"
                           ELSE join([i \in 1..Len(gapPages) |->
                                        "- [[" \o gapPages[i][1] \o "]]\n"], "")))

\* Lines 909-928, from the query's rows on.
TagDistributionOutput(tags, focusTag, lim) ==
    LET sortedTags == SortRowsDesc(SelectSeq(tags,
                          LAMBDA t : /\ Truthy(Index0(t))
                                     /\ ~(Len(RowName(t)) >= 6
                                          /\ SubSeq(RowName(t), 1, 6) = "block/")))
        focused == SelectSeq(sortedTags,
                       LAMBDA t : toLowerCase(RowName(t)) = toLowerCase(ToStr(focusTag)))
        shown == slice0(sortedTags, lim)
        bar(n) == LET units == (n + BarUnit - 1) \div BarUnit
                  IN  repeat("█", IF units < BarCap THEN units ELSE BarCap)
    IN  "# Tag Distribution\n\n"
        \o "**Total Unique Tags:** " \o ToString(Len(sortedTags)) \o "\n\n"
        \o (IF Truthy(focusTag) /\ Len(focused) > 0
            THEN "## Focus: #" \o RowName(focused[1]) \o "\n"
                 \o "Referenced " \o ToStr(RowCount(focused[1])) \o " times\n\n"
            ELSE "")
        \o "## Top Tags\n\n"
        \o join([i \in 1..Len(shown) |->
                   ToString(i) \o ". #" \o RowName(shown[i]) \o " - "
                   \o ToStr(RowCount(shown[i])) \o " " \o bar(RowCount(shown[i]).v) \o "\n"], "")

AnalyzeStart(v, now) ==
    CASE v.req.op \in {"graph_overview", "knowledge_gaps"} ->
             Await(v, CallOf("logseq.Editor.getAllPages", "", "", "", <<>>), "pages")
      [] v.req.op = "orphan_pages" ->
             Await(v, Datascript(buildDatalogQuery("orphan_pages", NoParams, now).v), "orphans")
      [] v.req.op = "todo_summary" ->
             Await(v, Datascript(buildDatalogQuery("todos", NoParams, now).v), "todos")
      [] v.req.op = "tag_distribution" ->
             Await(v, Datascript(TagsCountQuery), "tags")
      [] OTHER ->
             IF parseDateRange(OptionOr(v.req.dateRange, "last 7 days"), now).threw
             THEN AnalyzeCatch(v, "ranges[normalizedRange] is not a function")
             ELSE Await(v, CallOf("logseq.Editor.getAllPages", "", "", "", <<>>), "activity")

AnalyzeResume(v, now) ==
    CASE v.pc = "pages" /\ v.req.op = "graph_overview" ->
             Await([v EXCEPT !.items = v.last.list.v], Datascript(TagsCountQuery), "tag_counts")
      [] v.pc = "pages" ->
             KnowledgeGapsLoop([v EXCEPT !.k = 0, !.items =
                 slice0(SelectSeq(v.last.list.v, LAMBDA p : ~Truthy(Get(p, "journal?"))),
                        KnowledgeGapsCap)])
      [] v.pc = "gap_tree" ->
             LET page    == v.items[v.k]
                 content == processBlocks(v.last.blocks, 0)
             IN  KnowledgeGapsLoop([v EXCEPT !.refs = Append(@,
                     <<ToStr(Or(Get(page, "originalName"), Get(page, "name"))),
                       Len(Links(content))>>)])
      [] v.pc = "tag_counts" ->
             Await([v EXCEPT !.rows = v.last.list], Datascript(MarkersCountQuery), "task_counts")
      [] v.pc = "task_counts" ->
             IF v.rows.type = "null" \/ v.last.list.type = "null"
             THEN AnalyzeCatch(v, NullRead("length"))
             ELSE Return(v, GraphOverviewOutput(v.items, v.rows.v, v.last.list.v))
      [] v.pc = "orphans" ->
             IF v.last.list.type = "null" THEN AnalyzeCatch(v, NullRead("map"))
             ELSE Return(v, OrphanPagesOutput(v.last.list.v, OptionOr(v.req.limit, AnalyzeDefaultLimit)).value)
      [] v.pc = "todos" ->
             IF v.last.list.type = "null" THEN AnalyzeCatch(v, NullRead("forEach"))
             ELSE Return(v, TodoSummaryOutput(v.last.list.v))
      [] v.pc = "tags" ->
             IF v.last.list.type = "null" THEN AnalyzeCatch(v, NullRead("filter"))
             ELSE Return(v, TagDistributionOutput(v.last.list.v, v.req.focusTag,
                                                  OptionOr(v.req.limit, AnalyzeDefaultLimit)))
      [] OTHER ->
             \* activity
             LET range == parseDateRange(OptionOr(v.req.dateRange, "last 7 days"), now)
             IN  Return(v, "# Recent Activity\n\n"
                           \o "*Period: " \o toLocaleDateString(range.start) \o " - "
                           \o toLocaleDateString(range.end) \o "*\n\n"
                           \o "**Pages Modified:** 0\n\n"
                           \o "No activity in this period.\n")

AnalyzeStep(v, now) ==
    IF v.pc = "" THEN AnalyzeStart(v, now)
    ELSE IF ~v.last.ok
         THEN IF v.pc \in {"tag_counts", "task_counts"}
              THEN AnalyzeResume(CountQueryFailed(v), now)
              ELSE AnalyzeCatch(v, v.last.error)
    ELSE AnalyzeResume(v, now)

(***************************************************************************)
(* Specification SpecDate: parseDateRange applied to a phrase on a date.   *)
(***************************************************************************)
FirstYear == 2023
Years == FirstYear .. FirstYear + MaxYearOffset
TimesOfDay == {0, 43200000, MsPerDay - 1}

Phrases == RangeKeys \cup
    {"Today", "  YESTERDAY\n", "This Week ", "\tLast Month", "LAST 30 DAYS",
     "", "tomorrow", "this  week", "next week", "2025-03-14",
     "constructor", "Constructor ", "__proto__", "valueOf"}

Dates == {[day |-> n, ms |-> ms] :
             n \in DaysFromCivil(FirstYear, 0, 1)
                     .. DaysFromCivil(FirstYear + MaxYearOffset, 11, 31),
             ms \in TimesOfDay}

\* The variables of the other operations, which a specification that does
\* not exercise them leaves at rest.
DateIdle  == today = [day |-> 0, ms |-> 0] /\ dateRange = "" /\ parsed = NotCalled
BlockIdle == blocks = <<>> /\ text = NotCalled
QueryIdle ==
    /\ results = <<>> /\ limit = [type |-> "undefined"] /\ output = ""
    /\ outputText = "" /\ qpc = "idle"
NormIdle == remoteRows = <<>> /\ normStep = "none" /\ normOut = NotCalled
ToolIdle  == pages = <<>> /\ nextId = 0 /\ calls = <<>> /\ inv = <<>>
BuildIdle == buildType = "" /\ buildParams = <<>> /\ built = NotCalled

InitDate ==
    /\ today \in Dates
    /\ dateRange \in Phrases
    /\ parsed = NotCalled
    /\ BlockIdle /\ QueryIdle /\ NormIdle /\ ToolIdle /\ BuildIdle

CallParseDateRange ==
    /\ ~parsed.called
    /\ parsed' = parseDateRange(dateRange, today)
    /\ UNCHANGED <<today, dateRange, blockVars, queryVars, normVars, toolVars, buildVars>>

NextDate == CallParseDateRange

SpecDate == InitDate /\ [][NextDate]_vars

(***************************************************************************)
(* Claims about parseDateRange, checked under SpecDate.                    *)
(***************************************************************************)
\* The title column of the table of date-range phrases, read off the
\* calendar: the month before January is December of the year before.
TableTitle(key, t) ==
    LET c  == CivilFromDays(t.day)
        pm == IF c.month = 0 THEN 11 ELSE c.month - 1
        py == IF c.month = 0 THEN c.year - 1 ELSE c.year
    IN  CASE key = "today"        -> "Today's Journal"
          [] key = "yesterday"    -> "Yesterday's Journal"
          [] key = "this week"    -> "This Week's Journal"
          [] key = "last week"    -> "Last Week's Journal"
          [] key = "this month"   ->
                 "Journal for " \o MonthLong[c.month + 1] \o " " \o ToString(c.year)
          [] key = "last month"   ->
                 "Journal for " \o MonthLong[pm + 1] \o " " \o ToString(py)
          [] key = "last 7 days"  -> "Last 7 Days Journal"
          [] key = "last 30 days" -> "Last 30 Days Journal"

Recognized(phrase) == trim(toLowerCase(phrase)) \in RangeKeys

\* C1: for every recognized date-range phrase and every current date,
\* parseDateRange returns start <= end and the title the table gives for
\* that phrase.
C1_RecognizedRangeOrderedAndTitled ==
    (parsed.called /\ Recognized(dateRange)) =>
        /\ ~parsed.threw
        /\ DateLE(parsed.start, parsed.end)
        /\ parsed.title = TableTitle(trim(toLowerCase(dateRange)), today)

\* C1 witness: "last month" resolved on a 31 March, whose day of month does
\* not exist in February, written with a leading tab and capitals.
C1_Witness ==
    /\ parsed.called
    /\ dateRange = "\tLast Month"
    /\ getMonth(today) = 2 /\ getDate(today) = 31
    /\ parsed.title = "Journal for February " \o ToString(getFullYear(today))
    /\ getDate(parsed.end) \in {28, 29}

\* C2: for every phrase that, lower-cased and trimmed, is not one of the
\* eight recognized phrases, parseDateRange does not fail and returns the
\* start and end it returns for "this week" at the same current date, with
\* the title "Weekly Journal".
C2_UnrecognizedFallsBackToThisWeek ==
    (parsed.called /\ ~Recognized(dateRange)) =>
        LET week == parseDateRange("this week", today)
        IN  /\ ~parsed.threw
            /\ parsed.start = week.start
            /\ parsed.end = week.end
            /\ parsed.title = "Weekly Journal"

\* The calendar arithmetic agrees with the calendar: 29 February 2024 was a
\* Thursday, and day numbers and calendar dates convert back and forth.
DateModelSane ==
    /\ getDay([day |-> DaysFromCivil(2024, 1, 29), ms |-> 0]) = 4
    /\ DaysFromCivil(1970, 0, 1) = 0
    /\ LET c == CivilFromDays(today.day)
       IN  /\ DaysFromCivil(c.year, c.month, c.date) = today.day
           /\ c.month \in 0..11 /\ c.date \in 1..31 /\ c.year \in Years

(***************************************************************************)
(* Specification SpecBlocks: processBlocks applied to a block tree.        *)
(***************************************************************************)
BlockContents == {"", "a", "b"}

RECURSIVE Forests(_)
\* The block trees (sequences of blocks with their children) of exactly n
\* blocks: a first block, its children, and the siblings that follow it.
Forests(n) ==
    IF n = 0 THEN {<<>>}
    ELSE UNION {
           {<<[content |-> c, children |-> ch]>> \o rest :
                c \in BlockContents, ch \in Forests(k), rest \in Forests(n - 1 - k)}
           : k \in 0..(n - 1)}

InitBlocks ==
    /\ blocks \in UNION {Forests(n) : n \in 0..MaxNodes}
    /\ text = NotCalled
    /\ DateIdle /\ QueryIdle /\ NormIdle /\ ToolIdle /\ BuildIdle

CallProcessBlocks ==
    /\ text = NotCalled
    /\ text' = [called |-> TRUE, value |-> processBlocks(blocks, 0)]
    /\ UNCHANGED <<blocks, dateVars, queryVars, normVars, toolVars, buildVars>>

NextBlocks == CallProcessBlocks

SpecBlocks == InitBlocks /\ [][NextBlocks]_vars

(***************************************************************************)
(* Claims about processBlocks, checked under SpecBlocks.                   *)
(***************************************************************************)
RECURSIVE BulletsPreOrder(_, _)
\* One bullet line per block with non-empty content, a block before its
\* children and its children before its next sibling, indented by two
\* spaces per level; a block with empty content gives no line of its own.
BulletsPreOrder(bs, depth) ==
    IF bs = <<>> THEN ""
    ELSE LET block == Head(bs)
         IN  (IF block.content # ""
              THEN repeat(" ", 2 * depth) \o "- " \o block.content \o "\n"
              ELSE "")
             \o BulletsPreOrder(block.children, depth + 1)
             \o BulletsPreOrder(Tail(bs), depth)

\* C3: block-tree rendering emits one bullet line per node with non-empty
\* content, in depth-first pre-order, indented by 2 spaces per depth level;
\* a node with empty content contributes no line, but its non-empty
\* children and deeper descendants still render.
C3_EmptyNodeChildrenStillRender ==
    text.called => text.value = BulletsPreOrder(blocks, 0)

(***************************************************************************)
(* Specification SpecQuery: logseq_query from the end of its mode switch,  *)
(* on the rows a remote call returned.                                     *)
(***************************************************************************)
LongContent == repeat("0123456789", 12)

\* The record of row i: its keys in the Datalog style (block/...) or in the
\* style of the direct API, with or without a name, a marker and a content,
\* and always with the entity id the store gives every record.
RowRecord(datalog, hasName, hasMarker, hasContent, i) ==
    LET nameKey    == IF datalog THEN "block/name" ELSE "name"
        markerKey  == IF datalog THEN "block/marker" ELSE "marker"
        contentKey == IF datalog THEN "block/content" ELSE "content"
        keys == {"id"} \cup (IF hasName THEN {nameKey} ELSE {})
                  \cup (IF hasMarker THEN {markerKey} ELSE {})
                  \cup (IF hasContent THEN {contentKey} ELSE {})
    IN  Obj([k \in keys |->
               CASE k = "id"      -> Num(i)
                 [] k = nameKey   -> Str("p" \o ToString(i))
                 [] k = markerKey -> Str(IF i % 2 = 0 THEN "TODO" ELSE "DOING")
                 [] OTHER         -> Str(IF i % 3 = 0 THEN LongContent
                                         ELSE "c" \o ToString(i))])

NumRowKinds == 2 * 2 * 2 * 2 * 2

\* Row i of kind k: the five binary digits of k say whether the row is
\* tuple-wrapped, how its keys are spelled and which fields it has.
Row(k, i) ==
    LET rec == RowRecord((k \div 2) % 2 = 1, (k \div 4) % 2 = 1,
                         (k \div 8) % 2 = 1, (k \div 16) % 2 = 1, i)
    IN  IF k % 2 = 1 THEN Arr(<<rec>>) ELSE rec

\* n rows whose kinds run through all the kinds, starting at any of them.
Rows(n, offset) == [i \in 1..n |-> Row((i + offset) % NumRowKinds, i)]

\* filters.limit: absent, or a number.
Limits == <<Undef, Num(-1), Num(0), Num(1), Num(5), Num(SummaryCap), Num(SummaryCap + 1)>>
OutputModes == {"full", "summary", "names"}

InitQuery ==
    /\ \E n \in 0..MaxRows, offset \in 0..(NumRowKinds - 1) :
           results = Rows(n, offset)
    /\ \E i \in 1..Len(Limits) : limit = Limits[i]
    /\ output \in OutputModes
    /\ outputText = ""
    /\ qpc = "fetched"
    /\ DateIdle /\ BlockIdle /\ NormIdle /\ ToolIdle /\ BuildIdle

\* Lines 294-297.
QueryApplyLimit ==
    /\ qpc = "fetched"
    /\ results' = ApplyLimit(results, limit)
    /\ qpc' = "limited"
    /\ UNCHANGED <<limit, output, outputText, dateVars, blockVars, normVars, toolVars, buildVars>>

\* Lines 299-326.
QueryFormat ==
    /\ qpc = "limited"
    /\ outputText' = FormatOutput(results, output)
    /\ qpc' = "returned"
    /\ UNCHANGED <<results, limit, output, dateVars, blockVars, normVars, toolVars, buildVars>>

NextQuery == QueryApplyLimit \/ QueryFormat

SpecQuery == InitQuery /\ [][NextQuery]_vars

(***************************************************************************)
(* Claims about the limit and the summary format, checked under SpecQuery. *)
(***************************************************************************)
Min(a, b) == IF a <= b THEN a ELSE b

StartsWith(s, prefix) ==
    Len(prefix) <= Len(s) /\ SubSeq(s, 1, Len(prefix)) = prefix
EndsWith(s, suffix) ==
    Len(suffix) <= Len(s) /\ SubSeq(s, Len(s) - Len(suffix) + 1, Len(s)) = suffix

\* The positions of the line breaks of a text, and its k-th line.
LineBreaks(s) == {p \in 1..Len(s) : SubSeq(s, p, p) = "\n"}
LineOf(s, k) ==
    LET brk(j) == CHOOSE p \in LineBreaks(s) :
                      Cardinality({q \in LineBreaks(s) : q <= p}) = j
    IN  SubSeq(s, IF k = 1 THEN 1 ELSE brk(k - 1) + 1, brk(k) - 1)

\* The summary text after its "Found n results:" header and the blank line.
SummaryHeader == "Found " \o ToString(Len(results)) \o " results:\n\n"
SummaryBody == SubSeq(outputText, Len(SummaryHeader) + 1, Len(outputText))

\* C6: when filters.limit = L is supplied and the mode yields R rows, the
\* sequence that is formatted is the first min(L, R) rows in their original
\* order, so it never holds more than L rows.
C6_LimitKeepsFirstRows ==
    [][(qpc = "fetched" /\ qpc' = "limited" /\ limit.type = "number"
          /\ limit.v >= 0) =>
          /\ results' = SubSeq(results, 1, Min(limit.v, Len(results)))
          /\ Len(results') <= limit.v]_vars

\* C7: in summary mode, for a result list of n entries the output contains
\* exactly min(n, 20) rendered entries, and it ends with the trailer
\* "... and (n - 20) more results" if and only if n > 20.
C7_SummaryCapAndTrailer ==
    (qpc = "returned" /\ output = "summary") =>
        LET n == Len(results)
            trailer == "\n... and " \o ToString(n - 20) \o " more results"
        IN  /\ StartsWith(outputText, SummaryHeader)
            /\ IF n > 20
               THEN /\ EndsWith(SummaryBody, trailer)
                    /\ Cardinality(LineBreaks(SummaryBody)) = 20 + 1
                    /\ SubSeq(SummaryBody, Len(SummaryBody) - Len(trailer),
                              Len(SummaryBody) - Len(trailer)) = "\n"
               ELSE /\ ~EndsWith(SummaryBody, " more results")
                    /\ Cardinality(LineBreaks(SummaryBody)) = n
                    /\ (n > 0 => EndsWith(SummaryBody, "\n"))

\* C7 witness: more rows than the cap are summarized, with the trailer.
C7_Witness ==
    /\ qpc = "returned" /\ output = "summary"
    /\ Len(results) = 22
    /\ EndsWith(outputText, "\n... and 2 more results")

\* The field of a row's record under either spelling of its key, "" when
\* the record has neither.
RowField(r, datalogKey, apiKey) ==
    LET rec == IF r.type = "array" THEN r.v[1] ELSE r
    IN  IF datalogKey \in DOMAIN rec.v THEN rec.v[datalogKey].v
        ELSE IF apiKey \in DOMAIN rec.v THEN rec.v[apiKey].v
        ELSE ""

\* C8: in summary mode every rendered entry starts with its 1-based index,
\* followed by the bracketed-link name if a name field is present, then the
\* bracketed marker if a marker is present, or else (no name) the content
\* excerpt truncated to 100 characters; for every combination of present
\* and absent name, marker and content.
C8_SummaryEntryStartsWithIndex ==
    (qpc = "returned" /\ output = "summary") =>
        \A i \in 1..Min(Len(results), 20) :
            LET line    == LineOf(SummaryBody, i)
                idx     == ToString(i) \o ". "
                name    == RowField(results[i], "block/name", "name")
                marker  == RowField(results[i], "block/marker", "marker")
                content == RowField(results[i], "block/content", "content")
            IN  /\ StartsWith(line, idx)
                /\ name # "" => StartsWith(line, idx \o "[[" \o name \o "]]")
                /\ marker # "" =>
                       StartsWith(line, idx \o (IF name # "" THEN "[[" \o name \o "]]"
                                                ELSE "") \o " [" \o marker \o "]")
                /\ (name = "" /\ marker = "" /\ content # "") =>
                       StartsWith(line, idx \o SubSeq(content, 1, Min(100, Len(content))))
                         /\ Len(line) <= Len(idx) + 100 + 3

(***************************************************************************)
(* Specification SpecNorm: each step that reads the records of a remote    *)
(* result, applied to one or two rows in either shape.                     *)
(***************************************************************************)
\* Records as the store returns them: pages, journal pages and task
\* blocks, keyed as Datalog pulls key them and as the direct API does.
NormRecords == <<
    Obj([id |-> Num(1)] @@ ("block/name" :> Str("page one"))
          @@ ("block/original-name" :> Str("Page One"))),
    Obj([id |-> Num(2)] @@ ("block/name" :> Str("feb 29th, 2024"))
          @@ ("block/original-name" :> Str("Feb 29th, 2024"))
          @@ ("block/journal?" :> Bool(TRUE))
          @@ ("block/journal-day" :> Num(20240229))),
    Obj([id |-> Num(3), name |-> Str("page three"), originalName |-> Str("Page Three")]),
    Obj([id |-> Num(4), name |-> Str("feb 29th, 2024"),
         originalName |-> Str("Feb 29th, 2024"), journalDay |-> Num(20240229)]
          @@ ("journal?" :> Bool(TRUE))),
    Obj([id |-> Num(5)] @@ ("block/content" :> Str("TODO buy milk"))
          @@ ("block/marker" :> Str("TODO"))),
    Obj([id |-> Num(6), content |-> Str("doing  call mom"), marker |-> Str("DOING")]),
    Obj([id |-> Num(7)] @@ ("block/content" :> Str(LongContent))) >>

\* Record i as a remote result carries it: tuple-wrapped or bare.
NormRow(i, wrapped) == IF wrapped THEN Arr(<<NormRecords[i]>>) ELSE NormRecords[i]

\* The same rows with every tuple-wrapped record bare and every bare
\* record tuple-wrapped.
OtherShape(rows) ==
    [i \in 1..Len(rows) |->
        IF rows[i].type = "array" THEN rows[i].v[1] ELSE Arr(<<rows[i]>>)]

\* The ids of the records of the rows, in order.
RecordIds(rows) ==
    [i \in 1..Len(rows) |->
        (IF rows[i].type = "array" THEN rows[i].v[1] ELSE rows[i]).v.id.v]

Returned(v) == [called |-> TRUE, threw |-> FALSE, value |-> v]

\* What a step makes of the rows: the text it renders, or for a filter the
\* records it keeps.
StepOutcome(step, rows, t) ==
    CASE step = "names"       -> Returned(FormatOutput(rows, "names"))
      [] step = "summary"     -> Returned(FormatOutput(rows, "summary"))
      [] step = "journals"    ->
             LET r == parseDateRange("this week", t)
             IN  Returned(RecordIds(JournalsFilter(rows, r.start, r.end)))
      [] step = "journalOnly" -> Returned(RecordIds(JournalOnlyFilter(rows)))
      [] step = "backlinks"   -> Returned(BacklinksSection(rows))
      [] step = "orphans"     -> OrphanPagesOutput(rows, AnalyzeDefaultLimit)
      [] step = "todos"       -> Returned(TodoSummaryOutput(rows))

InitNorm ==
    /\ \E i \in 1..Len(NormRecords), j \in 0..Len(NormRecords), wi, wj \in BOOLEAN :
           remoteRows = IF j = 0 THEN <<NormRow(i, wi)>>
                        ELSE <<NormRow(i, wi), NormRow(j, wj)>>
    /\ normStep = "none"
    /\ normOut = NotCalled
    /\ today \in {[day |-> DaysFromCivil(2024, 2, 1), ms |-> 43200000],
                  [day |-> DaysFromCivil(2024, 2, 10), ms |-> 43200000]}
    /\ dateRange = "this week" /\ parsed = NotCalled
    /\ BlockIdle /\ QueryIdle /\ ToolIdle /\ BuildIdle

Normalize(step) ==
    /\ normStep = "none"
    /\ normStep' = step
    /\ normOut' = StepOutcome(step, remoteRows, today)
    /\ UNCHANGED <<remoteRows, dateVars, blockVars, queryVars, toolVars, buildVars>>

NormNames       == Normalize("names")
NormSummary     == Normalize("summary")
NormJournals    == Normalize("journals")
NormJournalOnly == Normalize("journalOnly")
NormBacklinks   == Normalize("backlinks")
NormOrphans     == Normalize("orphans")
NormTodos       == Normalize("todos")

NextNorm ==
    \/ NormNames \/ NormSummary \/ NormJournals \/ NormJournalOnly
    \/ NormBacklinks \/ NormOrphans \/ NormTodos

SpecNorm == InitNorm /\ [][NextNorm]_vars

\* C5: every normalizer step that reads a logical record from a remote
\* result (query names and summary formatting, journal-day filtering,
\* journalOnly filtering, backlink listing in read, orphan_pages and
\* todo_summary in analyze) accepts both the tuple-wrapped shape [record]
\* and the bare record shape and yields the same rendering for the same
\* record, without failing.
C5_BothShapesRenderAlike ==
    normStep # "none" =>
        /\ ~normOut.threw
        /\ normOut = StepOutcome(normStep, OtherShape(remoteRows), today)

(***************************************************************************)
(* Specification SpecTools: one invocation of one of the four tools        *)
(* against a remote store, with every remote call free to fail.            *)
(***************************************************************************)
MaxLines == 3

\* What the clock reads during the invocation.
ToolDates == <<[day |-> DaysFromCivil(2024, 2, 1), ms |-> 43200000],
               [day |-> DaysFromCivil(2024, 2, 12), ms |-> 3600000]>>

FirstBlock == Uuid(1)

\* The stores an invocation meets: an empty graph, and a graph with two
\* pages, the journal page of the day and the one of a day of the month
\* before.
StoredBlock(n, content, properties, children) ==
    [uuid |-> Uuid(n), content |-> content, properties |-> properties,
     children |-> children]
StoredPage(journal, journalDay, order, bs) ==
    [journal |-> journal, journalDay |-> journalDay, order |-> order, blocks |-> bs]
JournalDayOf(date) ==
    getFullYear(date) * 10000 + (getMonth(date) + 1) * 100 + getDate(date)
PopulatedStore(now) ==
    ("notes" :> StoredPage(FALSE, 0, 1,
        <<StoredBlock(1, "see [[ideas]] and [[plans]]", <<<<"status", "open">>>>,
            <<StoredBlock(2, "nested [[ideas]]", <<>>, <<>>)>>)>>))
    @@ ("ideas" :> StoredPage(FALSE, 0, 2, <<>>))
    @@ (formatJournalDate(now) :> StoredPage(TRUE, JournalDayOf(now), 3,
        <<StoredBlock(3, "met about [[plans]]", <<>>, <<>>)>>))
    @@ ("feb 20th, 2024" :> StoredPage(TRUE, 20240220, 4, <<>>))


\* The contents of a request: none, blank ones, and a number of lines with
\* or without blank lines between and after them.
ContentOf(n, gaps) ==
    Str(join([j \in 1..n |-> "item " \o ToString(j)], IF gaps THEN "\n \n" ELSE "\n")
        \o (IF gaps THEN "\n" ELSE ""))
Contents ==
    <<Undef, Str(""), Str(" \n")>>
    \o [n \in 1..MaxLines |-> ContentOf(n, FALSE)]
    \o <<ContentOf(MaxLines, TRUE)>>

PropertySets ==
    <<NoProperties, Properties(<<>>), Properties(<<<<"status", "done">>>>),
      Properties(<<<<"status", "done">>, <<"owner", "me">>>>)>>

Write(op, target) == Request("logseq_write", op, Str(target))

WriteRequests ==
    [j \in 1..(2 * Len(Contents)) |->
        [Write("create_page", IF j % 2 = 0 THEN "notes" ELSE "projects")
            EXCEPT !.content = Contents[(j + 1) \div 2]]]
    \o [j \in 1..Len(Contents) |->
        [Write("create_page", "projects")
            EXCEPT !.content = Contents[j], !.asJournal = TRUE,
                   !.properties = PropertySets[(j % Len(PropertySets)) + 1]]]
    \o [j \in 1..(2 * Len(Contents)) |->
        [Write("append_to_page", IF j % 2 = 0 THEN "notes" ELSE "projects")
            EXCEPT !.content = Contents[(j + 1) \div 2]]]
    \o [j \in 1..(4 * Len(Contents)) |->
        [Write("append_to_journal",
               <<"today", "yesterday", "2024-02-20", "daily log">>[(j % 4) + 1])
            EXCEPT !.content = Contents[(j + 3) \div 4]]]
    \o <<Write("delete_page", "notes"), Write("delete_page", "projects"),
         Write("delete_block", FirstBlock),
         Write("delete_block", "((" \o FirstBlock \o "))"),
         Write("update_block", FirstBlock),
         [Write("update_block", "((" \o FirstBlock \o "))") EXCEPT !.content = Str("new text")],
         [Write("update_block", "no-such-block") EXCEPT !.content = Str("new text")],
         Write("create_block", "notes")>>
    \o [j \in 1..(3 * Len(PropertySets)) |->
        [Write("create_block", "notes")
            EXCEPT !.content = Str("a block"),
                   !.properties = PropertySets[((j - 1) % Len(PropertySets)) + 1],
                   !.parentBlockId = <<Undef, Str("((" \o FirstBlock \o "))"),
                                       Str("0000-no-such-block")>>[((j - 1) \div Len(PropertySets)) + 1]]]
    \o <<[Write("create_block", "projects") EXCEPT !.content = Str("a block"),
                                                    !.properties = PropertySets[3]]>>
    \o [j \in 1..(2 * 5 * Len(PropertySets)) |->
        [Write(IF j % 2 = 0 THEN "set_property" ELSE "remove_property",
               <<FirstBlock, "((" \o FirstBlock \o "))", "notes", "ideas", "deadbeef">>
                   [(((j - 1) \div 2) % 5) + 1])
            EXCEPT !.properties = PropertySets[((j - 1) \div 10) + 1]]]
    \o <<[Write("create_page", "notes")
            EXCEPT !.content = Contents[Len(Contents)], !.asJournal = TRUE,
                   !.properties = PropertySets[Len(PropertySets)]]>>

Query(mode) == Request("logseq_query", mode, Undef)

QueryShapes ==
    <<Query("pages"),
      [Query("pages") EXCEPT !.target = Str("NOTE")],
      [Query("pages") EXCEPT !.journalOnly = TRUE],
      [Query("pages") EXCEPT !.tag = Str("Project")],
      [Query("pages") EXCEPT !.tag = Str("Project"), !.journalOnly = TRUE],
      [Query("pages") EXCEPT !.property = Str("status"), !.propertyValue = Str("open")],
      [Query("pages") EXCEPT !.property = Str("status")],
      Query("blocks"),
      [Query("blocks") EXCEPT !.target = Str("milk")],
      [Query("blocks") EXCEPT !.tag = Str("Project")],
      Query("todos"),
      Query("journals"),
      [Query("journals") EXCEPT !.dateRange = Str("last month")],
      [Query("journals") EXCEPT !.dateRange = Str("__proto__")],
      Query("backlinks"),
      [Query("backlinks") EXCEPT !.target = Str("Notes")],
      Query("recent"),
      Query("search"),
      [Query("search") EXCEPT !.target = Str("milk")],
      Query("datalog"),
      [Query("datalog") EXCEPT !.target = Str("[:find ?b :where [?b :block/uuid]]")]>>

OutputChoices == <<Undef, Str("summary"), Str("names"), Str("full")>>
LimitChoices  == <<Undef, Num(1), Num(0)>>

QueryRequests ==
    [j \in 1..(Len(QueryShapes) * Len(OutputChoices)) |->
        [QueryShapes[((j - 1) \div Len(OutputChoices)) + 1]
            EXCEPT !.output = OutputChoices[((j - 1) % Len(OutputChoices)) + 1]]]
    \o [j \in 1..(Len(QueryShapes) * (Len(LimitChoices) - 1)) |->
        [QueryShapes[((j - 1) \div (Len(LimitChoices) - 1)) + 1]
            EXCEPT !.limit = LimitChoices[((j - 1) % (Len(LimitChoices) - 1)) + 2]]]

Read(target, identifier) == Request("logseq_read", target, Str(identifier))

ReadShapes ==
    <<Read("page", "notes"), Read("page", "projects"),
      Read("block", FirstBlock), Read("block", "((" \o FirstBlock \o "))"),
      Read("block", "0000-no-such-block"),
      Read("journal", "today"), Read("journal", "yesterday"),
      Read("journal", "this month"),
      Read("journal", "Last Month "), Read("journal", "2024-02-20"),
      Read("journal", "__proto__")>>

ReadRequests ==
    ReadShapes
    \o [j \in 1..Len(ReadShapes) |-> [ReadShapes[j] EXCEPT !.includeContent = Bool(FALSE)]]
    \o [j \in 1..Len(ReadShapes) |-> [ReadShapes[j] EXCEPT !.includeBacklinks = Bool(TRUE)]]
    \o [j \in 1..Len(ReadShapes) |->
           [ReadShapes[j] EXCEPT !.includeContent = Bool(FALSE),
                                 !.includeBacklinks = Bool(TRUE),
                                 !.includeProperties = Bool(FALSE)]]
    \o <<[Read("page", "notes") EXCEPT !.depth = Num(1)]>>

Analyze(analysis) == Request("logseq_analyze", analysis, Undef)

AnalyzeRequests ==
    <<Analyze("graph_overview"), Analyze("knowledge_gaps"), Analyze("orphan_pages"),
      Analyze("todo_summary"), Analyze("tag_distribution"), Analyze("recent_activity"),
      [Analyze("knowledge_gaps") EXCEPT !.limit = Num(1)],
      [Analyze("orphan_pages") EXCEPT !.limit = Num(1)],
      [Analyze("tag_distribution") EXCEPT !.limit = Num(1), !.focusTag = Str("IDEAS")],
      [Analyze("recent_activity") EXCEPT !.dateRange = Str("today")],
      [Analyze("recent_activity") EXCEPT !.dateRange = Str("__proto__")]>>

Requests == WriteRequests \o QueryRequests \o ReadRequests \o AnalyzeRequests

\* What the graph answers to a query for records or for linked references,
\* and to a query that counts.
RecordAnswers ==
    <<Null, Arr(<<>>),
      Arr(<<NormRow(1, TRUE), NormRow(2, TRUE), NormRow(5, TRUE)>>),
      Arr(<<NormRow(3, FALSE), NormRow(4, FALSE), NormRow(6, FALSE)>>)>>
CountAnswers ==
    <<Null, Arr(<<>>),
      Arr(<<Arr(<<Str("ideas"), Num(3)>>), Arr(<<Str("Plans"), Num(12)>>),
            Arr(<<Str("block/alias"), Num(104)>>)>>)>>
Answers(c) ==
    IF c.method \in {"logseq.DB.datascriptQuery", "logseq.Editor.getPageLinkedReferences"}
    THEN IF c.a1 \in {TagsCountQuery, MarkersCountQuery} THEN CountAnswers
         ELSE RecordAnswers
    ELSE <<Null>>

InitTools ==
    /\ \E d \in 1..Len(ToolDates) : today = ToolDates[d]
    /\ \E populated \in BOOLEAN :
           pages = IF populated THEN PopulatedStore(today) ELSE <<>>
    \* The blocks of the populated store bear the numbers 1 to 3.
    /\ nextId = 4
    /\ calls = <<>>
    /\ inv = <<IdleInvocation>>
    /\ dateRange = "" /\ parsed = NotCalled
    /\ BlockIdle /\ QueryIdle /\ NormIdle /\ BuildIdle

\* A client calls a tool.
Invoke ==
    \E i \in DOMAIN inv, j \in 1..Len(Requests) :
        /\ inv[i].st = "idle"
        /\ inv' = [inv EXCEPT ![i] = [IdleInvocation EXCEPT !.st = "running",
                                                            !.req = Requests[j]]]
        /\ UNCHANGED <<pages, nextId, calls, dateVars, blockVars, queryVars, normVars, buildVars>>

\* The handler of invocation i got to w: the call it now awaits is issued.
Proceed(i, w) ==
    /\ inv' = [inv EXCEPT ![i] = w]
    /\ calls' = IF w.st = "waiting"
                THEN Append(calls, [inv |-> i, method |-> w.call.method, a1 |-> w.call.a1,
                                    a2 |-> w.call.a2, a3 |-> w.call.a3,
                                    props |-> w.call.props, status |-> "pending",
                                    found |-> FALSE, error |-> ""])
                ELSE calls
    /\ UNCHANGED <<pages, nextId, dateVars, blockVars, queryVars, normVars, buildVars>>

Running(i, tool) == inv[i].st = "running" /\ inv[i].req.tool = tool

logseq_query ==
    \E i \in DOMAIN inv :
        Running(i, "logseq_query") /\ Proceed(i, QueryStep(inv[i], today))
logseq_read ==
    \E i \in DOMAIN inv :
        Running(i, "logseq_read") /\ Proceed(i, ReadStep(inv[i], today))
logseq_write ==
    \E i \in DOMAIN inv :
        Running(i, "logseq_write") /\ Proceed(i, WriteStep(inv[i], today))
logseq_analyze ==
    \E i \in DOMAIN inv :
        Running(i, "logseq_analyze") /\ Proceed(i, AnalyzeStep(inv[i], today))

\* The entry of the call invocation i awaits.
Pending(i) == CHOOSE j \in 1..Len(calls) : calls[j].inv = i /\ calls[j].status = "pending"

\* callLogseqApi returns what the graph answered.
callLogseqApiReturns ==
    \E i \in DOMAIN inv :
        /\ inv[i].st = "waiting"
        /\ \E a \in 1..Len(Answers(inv[i].call)) :
               LET r == RemoteApply(inv[i].call, pages, nextId, Answers(inv[i].call)[a])
               IN  /\ pages' = r.pages
                   /\ nextId' = r.nextId
                   /\ inv' = [inv EXCEPT ![i].st = "running", ![i].last = r.reply]
                   /\ calls' = [calls EXCEPT ![Pending(i)].status = "ok",
                                             ![Pending(i)].found = r.reply.found]
        /\ UNCHANGED <<dateVars, blockVars, queryVars, normVars, buildVars>>

\* callLogseqApi throws: the graph answered with a status that is not ok, or
\* fetch failed.
callLogseqApiThrows ==
    \E i \in DOMAIN inv, kind \in FailureKinds :
        /\ inv[i].st = "waiting"
        /\ inv' = [inv EXCEPT ![i].st = "running", ![i].last = Failure(kind)]
        /\ calls' = [calls EXCEPT ![Pending(i)].status = "failed",
                                  ![Pending(i)].error = kind]
        /\ UNCHANGED <<pages, nextId, dateVars, blockVars, queryVars, normVars, buildVars>>

NextTools ==
    \/ Invoke
    \/ logseq_query \/ logseq_read \/ logseq_write \/ logseq_analyze
    \/ callLogseqApiReturns \/ callLogseqApiThrows

SpecTools == InitTools /\ [][NextTools]_vars

(***************************************************************************)
(* Claims about the remote calls of an invocation.                         *)
(***************************************************************************)
\* The calls invocation i issued so far, in the order it issued them.
CallsOf(i) == SelectSeq(calls, LAMBDA c : c.inv = i)

\* Whether the log entry is that call.
IsCall(entry, method, a1, a2, props) ==
    /\ entry.method = method /\ entry.a1 = a1 /\ entry.a2 = a2
    /\ entry.props = props

ErrorPrefix(tool) ==
    CASE tool = "logseq_query"   -> "Query error:"
      [] tool = "logseq_read"    -> "Read error:"
      [] tool = "logseq_write"   -> "Write error:"
      [] tool = "logseq_analyze" -> "Analysis error:"

AppendsToJournal(v) ==
    /\ v.st # "idle"
    /\ v.req.tool = "logseq_write" /\ v.req.op = "append_to_journal"
    /\ Truthy(v.req.content)

\* C4: write(append_to_journal) with a content of N non-blank lines issues
\* getPage for the resolved journal name first; when that answers that no
\* such page exists it issues exactly one createPage carrying the journal
\* flag, and when the page exists it issues none; then it issues the N
\* appendBlockInPage calls in line order and nothing else; when every call
\* succeeded it reports "Added N block(s) to journal" with the journal name.
C4_JournalAppendCallOrder ==
    \A i \in DOMAIN inv :
        AppendsToJournal(inv[i]) =>
            LET mine    == CallsOf(i)
                lines   == NonBlankLines(inv[i].req.content.v)
                name    == JournalPageName(inv[i].req.target.v, today)
                looked  == Len(mine) >= 1 /\ mine[1].status = "ok"
                creates == IF looked /\ ~mine[1].found THEN 1 ELSE 0
            IN  /\ inv[i].st \in {"waiting", "done"} => Len(mine) >= 1
                /\ Len(mine) >= 1 =>
                       IsCall(mine[1], "logseq.Editor.getPage", name, "", <<>>)
                /\ Len(mine) >= 2 => looked
                /\ Len(mine) <= 1 + creates + Len(lines)
                /\ (Len(mine) >= 2 /\ creates = 1) =>
                       IsCall(mine[2], "logseq.Editor.createPage", name, "",
                              <<<<"journal?", "true">>>>)
                /\ \A j \in (2 + creates)..Len(mine) :
                       IsCall(mine[j], "logseq.Editor.appendBlockInPage", name,
                              lines[j - 1 - creates], <<>>)
                /\ (inv[i].st = "done" /\ \A j \in 1..Len(mine) : mine[j].status = "ok") =>
                       /\ Len(mine) = 1 + creates + Len(lines)
                       /\ inv[i].resp = "Added " \o ToString(Len(lines))
                                        \o " block(s) to journal \"" \o name \o "\"."

\* An append of two lines to the journal of today, which the store did not
\* hold, went through: getPage, createPage, two appends, and the report.
C4_Witness ==
    /\ AppendsToJournal(inv[1]) /\ inv[1].st = "done"
    /\ inv[1].req.target.v = "today"
    /\ Len(calls) = 4
    /\ \A j \in 1..4 : calls[j].status = "ok"
    /\ calls[2].method = "logseq.Editor.createPage"
    /\ calls[3].a2 = "item 1" /\ calls[4].a2 = "item 2"
    /\ inv[1].resp = "Added 2 block(s) to journal \"" \o formatJournalDate(today) \o "\"."
    /\ Len(pages[formatJournalDate(today)].blocks) = 2
    /\ pages[formatJournalDate(today)].journal

\* A call of the three places where a handler goes on after the call
\* failed: lines 262-269, 387-402 and 760-772.
RecoveredInPlace(req, entry) ==
    \/ /\ req.tool = "logseq_query" /\ req.op = "backlinks"
       /\ entry.method = "logseq.Editor.getPageLinkedReferences"
    \/ /\ req.tool = "logseq_read" /\ req.op = "page"
       /\ entry.method = "logseq.Editor.getPageLinkedReferences"
    \/ /\ req.tool = "logseq_analyze" /\ req.op = "graph_overview"
       /\ entry.method = "logseq.DB.datascriptQuery"

\* The failure of call j is surfaced: its invocation issues no call after
\* it and returns the text with the error prefix of its tool.
Surfaced(i, j) ==
    /\ \A later \in (j + 1)..Len(calls) : calls[later].inv # i
    /\ inv[i].st = "done" => StartsWith(inv[i].resp, ErrorPrefix(inv[i].req.tool))

\* C9 as the specification states it: whenever a remote call of an
\* invocation fails, the invocation's response is the error-prefixed text of
\* its handler, and the handler neither issues another remote call nor
\* returns a success text.
C9_EveryFailureSurfaced ==
    \A i \in DOMAIN inv, j \in 1..Len(calls) :
        (calls[j].inv = i /\ calls[j].status = "failed") => Surfaced(i, j)

\* C9: a failed remote call is surfaced, but for three places.  query in
\* backlinks mode answers a failed getPageLinkedReferences with one Datalog
\* query for the backlinks; read of a page with backlinks answers a failed
\* getPageLinkedReferences with its success text and "Could not fetch
\* backlinks."; analyze graph_overview takes a failed count query for an
\* empty result and goes on.
C9_FailureSurfacedOrRecoveredInPlace ==
    \A i \in DOMAIN inv, j \in 1..Len(calls) :
        (calls[j].inv = i /\ calls[j].status = "failed") =>
            LET req   == inv[i].req
                after == SelectSeq(SubSeq(calls, j + 1, Len(calls)), LAMBDA c : c.inv = i)
            IN  IF ~RecoveredInPlace(req, calls[j]) THEN Surfaced(i, j)
                ELSE IF req.tool = "logseq_query"
                THEN /\ Len(after) <= 1
                     /\ inv[i].st \in {"waiting", "done"} =>
                            /\ Len(after) = 1
                            /\ IsCall(after[1], "logseq.DB.datascriptQuery",
                                      buildDatalogQuery("backlinks",
                                          [NoParams EXCEPT !.page = req.target], today).v,
                                      "", <<>>)
                ELSE IF req.tool = "logseq_read"
                THEN /\ after = <<>>
                     /\ inv[i].st = "done" =>
                            /\ StartsWith(inv[i].resp, "# ")
                            /\ EndsWith(inv[i].resp,
                                        "\n## Backlinks\n\nCould not fetch backlinks.\n")
                ELSE /\ \A a \in 1..Len(after) : after[a].method = "logseq.DB.datascriptQuery"
                     /\ inv[i].st = "done" =>
                            \/ StartsWith(inv[i].resp, "# Graph Overview\n\n")
                            \/ inv[i].resp = "Analysis error: " \o NullRead("length")

\* Both the linked-references lookup of a backlinks query and the Datalog
\* query it fell back to failed, and the query returned its error.
C9_Witness ==
    /\ inv[1].st = "done"
    /\ inv[1].req.tool = "logseq_query" /\ inv[1].req.op = "backlinks"
    /\ Len(calls) = 2
    /\ calls[1].method = "logseq.Editor.getPageLinkedReferences"
    /\ calls[1].status = "failed"
    /\ calls[2].method = "logseq.DB.datascriptQuery"
    /\ calls[2].status = "failed"
    /\ StartsWith(inv[1].resp, "Query error: ")

\* C10: in create_page, append_to_page and append_to_journal, when the k-th
\* appendBlockInPage call fails, the page and the k-1 blocks appended before
\* stay in the store, the invocation issues no further remote call, and its
\* response begins "Write error:".
C10_FailedAppendLeavesPartialWrite ==
    \A i \in DOMAIN inv, j \in 1..Len(calls) :
        (/\ calls[j].inv = i /\ calls[j].status = "failed"
         /\ calls[j].method = "logseq.Editor.appendBlockInPage"
         /\ inv[i].req.op \in {"create_page", "append_to_page", "append_to_journal"}) =>
            LET k == Cardinality({m \in 1..j :
                         /\ calls[m].inv = i
                         /\ calls[m].method = "logseq.Editor.appendBlockInPage"})
                lines == NonBlankLines(inv[i].req.content.v)
                name  == calls[j].a1
            IN  /\ calls[j].a2 = lines[k]
                /\ \A later \in (j + 1)..Len(calls) : calls[later].inv # i
                /\ inv[i].st \in {"running", "done"}
                /\ name \in DOMAIN pages
                /\ Len(pages[name].blocks) >= k - 1
                /\ \A m \in 1..(k - 1) :
                       pages[name].blocks[Len(pages[name].blocks) - (k - 1) + m].content
                           = lines[m]
                /\ inv[i].st = "done" => StartsWith(inv[i].resp, "Write error:")

\* create_page made the page and appended the first line; the append of
\* the second line failed, and the page is left with the one block.
C10_Witness ==
    /\ inv[1].st = "done"
    /\ inv[1].req.op = "create_page"
    /\ Len(calls) = 4
    /\ calls[2].method = "logseq.Editor.createPage" /\ calls[2].status = "ok"
    /\ calls[3].status = "ok"
    /\ calls[4].method = "logseq.Editor.appendBlockInPage"
    /\ calls[4].status = "failed"
    /\ Len(NonBlankLines(inv[1].req.content.v)) > 2
    /\ "projects" \in DOMAIN pages
    /\ Len(pages["projects"].blocks) = 1
    /\ pages["projects"].blocks[1].content = "item 1"
    /\ StartsWith(inv[1].resp, "Write error:")

\* The request leaves out the field its operation requires: the query of
\* the modes backlinks, search and datalog, the content of create_block,
\* update_block, append_to_page and append_to_journal, the properties of
\* set_property and remove_property.  An empty string and an object without
\* keys count as left out.
Absent(x) == x.type = "undefined" \/ (x.type = "string" /\ x.v = "")
MissingRequired(req) ==
    \/ /\ req.tool = "logseq_query"
       /\ req.op \in {"backlinks", "search", "datalog"}
       /\ Absent(req.target)
    \/ /\ req.tool = "logseq_write"
       /\ req.op \in {"create_block", "update_block", "append_to_page",
                       "append_to_journal"}
       /\ Absent(req.content)
    \/ /\ req.tool = "logseq_write"
       /\ req.op \in {"set_property", "remove_property"}
       /\ (~req.properties.given \/ req.properties.entries = <<>>)

\* C11: an invocation whose request leaves out a required field never
\* issues a remote call, never waits, and returns a text that begins
\* "Error:".
C11_ValidationBeforeAnyCall ==
    \A i \in DOMAIN inv :
        (inv[i].st # "idle" /\ MissingRequired(inv[i].req)) =>
            /\ Len(CallsOf(i)) = 0
            /\ inv[i].st \in {"running", "done"}
            /\ inv[i].st = "done" => StartsWith(inv[i].resp, "Error: ")

\* set_property on a page that has a block, with a properties object
\* without keys, returned its validation text and called nothing.
C11_Witness ==
    /\ inv[1].st = "done"
    /\ inv[1].req.op = "set_property"
    /\ inv[1].req.target.v = "notes"
    /\ inv[1].req.properties.given
    /\ "notes" \in DOMAIN pages
    /\ calls = <<>>
    /\ inv[1].resp = "Error: properties required for set_property"

\* The calls the loops over lines and over properties issue (lines 549-551,
\* 583-585, 622-624, 656-658, 674-676, 682-684, 702-704, 709-711).
LoopMethods ==
    {"logseq.Editor.appendBlockInPage", "logseq.Editor.upsertBlockProperty",
     "logseq.Editor.removeBlockProperty"}

\* C12: of the calls of one invocation only the last can be outstanding,
\* the invocation waits exactly while that one is, and a call of a loop over
\* lines or properties is followed by the next call of the loop only when
\* it succeeded.
C12_CallsStrictlySequential ==
    \A i \in DOMAIN inv :
        LET mine == CallsOf(i)
        IN  /\ \A j \in 1..(Len(mine) - 1) : mine[j].status # "pending"
            /\ inv[i].st = "waiting" <=>
                   (Len(mine) >= 1 /\ mine[Len(mine)].status = "pending")
            /\ \A j \in 1..(Len(mine) - 1) :
                   (mine[j].method \in LoopMethods /\ mine[j + 1].method \in LoopMethods)
                       => mine[j].status = "ok"

\* set_property with two properties on a page: the tree was read, the
\* first property was set, and the call for the second is outstanding.
C12_Witness ==
    /\ inv[1].st = "waiting"
    /\ inv[1].req.op = "set_property" /\ inv[1].req.target.v = "notes"
    /\ Len(calls) = 3
    /\ calls[1].method = "logseq.Editor.getPageBlocksTree" /\ calls[1].status = "ok"
    /\ calls[2].method = "logseq.Editor.upsertBlockProperty" /\ calls[2].status = "ok"
    /\ calls[2].a2 = "status"
    /\ calls[3].method = "logseq.Editor.upsertBlockProperty"
    /\ calls[3].a2 = "owner" /\ calls[3].status = "pending"

C14_UnauthorizedQueryExplainsItself ==
    \A i \in DOMAIN inv :
        LET mine == CallsOf(i)
        IN  (/\ inv[i].st = "done" /\ inv[i].req.tool = "logseq_query"
             /\ Len(mine) >= 1
             /\ mine[Len(mine)].status = "failed"
             /\ mine[Len(mine)].error = "401") =>
                /\ StartsWith(inv[i].resp, "Query error: Logseq API authentication failed")
                /\ Includes(inv[i].resp, "\"Authorization token\" setting")
                /\ EndsWith(inv[i].resp, "accessible at http://127.0.0.1:12315/api")

\* The query for the recent pages was answered with 401.
C14_Witness ==
    /\ inv[1].st = "done"
    /\ inv[1].req.tool = "logseq_query" /\ inv[1].req.op = "recent"
    /\ Len(calls) = 1
    /\ calls[1].method = "logseq.DB.datascriptQuery"
    /\ calls[1].status = "failed" /\ calls[1].error = "401"
    /\ StartsWith(inv[1].resp, "Query error: ")
    /\ Includes(inv[1].resp, "token")

\* The days of the 0-based month m of the year y.
MonthLength(y, m) ==
    IF m = 1
    THEN IF (y % 4 = 0 /\ y % 100 # 0) \/ y % 400 = 0 THEN 29 ELSE 28
    ELSE IF m \in {3, 5, 8, 10} THEN 30 ELSE 31

\* The day numbers of the start and end columns of the table of date-range
\* phrases on the day t, counted on the calendar.
TableDays(key, t) ==
    LET c     == CivilFromDays(t.day)
        first == t.day - (c.date - 1)
        pm    == IF c.month = 0 THEN 11 ELSE c.month - 1
        py    == IF c.month = 0 THEN c.year - 1 ELSE c.year
        sun   == t.day - getDay(t)
    IN  CASE key = "today"        -> [start |-> t.day, end |-> t.day]
          [] key = "yesterday"    -> [start |-> t.day - 1, end |-> t.day - 1]
          [] key = "this week"    -> [start |-> sun, end |-> t.day]
          [] key = "last week"    -> [start |-> sun - 7, end |-> sun - 1]
          [] key = "this month"   -> [start |-> first, end |-> t.day]
          [] key = "last month"   -> [start |-> first - MonthLength(py, pm),
                                      end   |-> first - 1]
          [] key = "last 7 days"  -> [start |-> t.day - 7, end |-> t.day]
          [] key = "last 30 days" -> [start |-> t.day - 30, end |-> t.day]

\* C15: for every current date and every recognized phrase the start is
\* 00:00:00.000 of the table's start day and the end 23:59:59.999 of the
\* table's end day; last week runs from a Sunday to the Saturday six days
\* later, last month from the 1st to the last day of the calendar month
\* before (December of the year before in January), and yesterday is the
\* day before today.
C15_RangeEqualsTableRow ==
    (parsed.called /\ Recognized(dateRange)) =>
        LET key == trim(toLowerCase(dateRange))
            row == TableDays(key, today)
            s   == CivilFromDays(parsed.start.day)
            e   == CivilFromDays(parsed.end.day)
            c   == CivilFromDays(today.day)
        IN  /\ ~parsed.threw
            /\ parsed.start = [day |-> row.start, ms |-> 0]
            /\ parsed.end = [day |-> row.end, ms |-> MsPerDay - 1]
            /\ key = "last week" =>
                   /\ getDay(parsed.start) = 0 /\ getDay(parsed.end) = 6
                   /\ parsed.end.day - parsed.start.day = 6
                   /\ parsed.end.day < today.day - getDay(today)
            /\ key = "last month" =>
                   /\ s.date = 1 /\ e.date = MonthLength(e.year, e.month)
                   /\ s.month = e.month /\ s.year = e.year
                   /\ s.year * 12 + s.month + 1 = c.year * 12 + c.month

\* "last month" resolved on a 15 January: the whole of December of the
\* year before.
C15_Witness ==
    /\ parsed.called /\ ~parsed.threw
    /\ dateRange = "last month"
    /\ getMonth(today) = 0 /\ getDate(today) = 15
    /\ getFullYear(parsed.start) = getFullYear(today) - 1
    /\ getMonth(parsed.start) = 11 /\ getDate(parsed.start) = 1
    /\ getMonth(parsed.end) = 11 /\ getDate(parsed.end) = 31
    /\ parsed.start.ms = 0 /\ parsed.end.ms = MsPerDay - 1

(***************************************************************************)
(* Specification SpecBuild: buildDatalogQuery applied to a type tag and    *)
(* parameters.                                                             *)
(***************************************************************************)
BuildTypes ==
    QueryCatalog \cup {"", "unknown", "Pages", "constructor", "toString", "__proto__"}
BuildCustoms == <<Undef, Str(""), Str("[:find ?b :where [?b :block/uuid]]")>>
BuildTags    == <<Undef, Str("Project"), Str("ideas")>>
BuildDays    == <<Undef, Num(7), Num(2)>>

InitBuild ==
    /\ \E d \in 1..Len(ToolDates) : today = ToolDates[d]
    /\ buildType \in BuildTypes
    /\ \E c \in 1..Len(BuildCustoms), g \in 1..Len(BuildTags), n \in 1..Len(BuildDays) :
           buildParams = [NoParams EXCEPT !.custom = BuildCustoms[c],
                                          !.tag = BuildTags[g], !.page = BuildTags[g],
                                          !.text = BuildTags[g], !.days = BuildDays[n]]
    /\ built = NotCalled
    /\ dateRange = "" /\ parsed = NotCalled
    /\ BlockIdle /\ QueryIdle /\ NormIdle /\ ToolIdle

CallBuildDatalogQuery ==
    /\ ~built.called
    /\ built' = [called |-> TRUE,
                 value  |-> buildDatalogQuery(buildType, buildParams, today)]
    /\ UNCHANGED <<buildType, buildParams, dateVars, blockVars, queryVars, normVars,
                   toolVars>>

NextBuild == CallBuildDatalogQuery

SpecBuild == InitBuild /\ [][NextBuild]_vars

\* Whether the JavaScript value x is the string str.
IsString(x, str) == x.type = "string" /\ x.v = str

\* C16: buildDatalogQuery returns, for a queryType of the catalog, that
\* template whatever params.custom is; for any other queryType it returns
\* params.custom when that is supplied, and otherwise the string
\* buildDatalogQuery('pages', {}) returns.
C16_UnknownTypeFallsBackToCustomOrPages ==
    built.called =>
        IF buildType \in QueryCatalog
        THEN IsString(built.value, QueryTemplate(buildType, buildParams, today))
        ELSE IF buildParams.custom.type = "string" /\ buildParams.custom.v # ""
        THEN IsString(built.value, buildParams.custom.v)
        ELSE IsString(built.value, buildDatalogQuery("pages", NoParams, today).v)

\* C17: in names mode a tuple-wrapped record and the bare record render
\* to the same line, so the output for the results is the output for the
\* same results in the other shape; the output has one line per result, in
\* the order of the results, and the line of a record with a name field is
\* that name.
C17_NamesUnwrapBothShapes ==
    (qpc = "returned" /\ output = "names") =>
        LET lines == IF Len(results) = 0 THEN <<>> ELSE splitLines(outputText)
        IN  /\ Len(results) = 0 => outputText = ""
            /\ Len(lines) = Len(results)
            /\ \A i \in 1..Len(results) :
                   RowField(results[i], "block/name", "name") # "" =>
                       lines[i] = RowField(results[i], "block/name", "name")
            /\ outputText = FormatOutput(OtherShape(results), "names")

\* Names were rendered for results that hold a tuple-wrapped and a bare
\* record with a name.
C17_Witness ==
    /\ qpc = "returned" /\ output = "names"
    /\ Len(results) >= 5
    /\ \E i, j \in 1..Len(results) :
           /\ results[i].type = "array" /\ results[j].type = "object"
           /\ RowField(results[i], "block/name", "name") = "p" \o ToString(i)
           /\ RowField(results[j], "block/name", "name") = "p" \o ToString(j)
           /\ splitLines(outputText)[i] = "p" \o ToString(i)
           /\ splitLines(outputText)[j] = "p" \o ToString(j)

\* Whether the journal day of the stored page lies in the range, both
\* ends included: 20240220 is the 20th day of the 2nd month of 2024.
StoredJournalInRange(page, range) ==
    /\ page.journal /\ page.journalDay # 0
    /\ LET midnight == [day |-> DaysFromCivil(page.journalDay \div 10000,
                                               ((page.journalDay \div 100) % 100) - 1,
                                               page.journalDay % 100),
                        ms  |-> 0]
       IN  DateLE(range.start, midnight) /\ DateLE(midnight, range.end)

\* C18: read(journal, phrase), when the phrase resolves to a range, the
\* page list was fetched and no journal page of the store has its journal
\* day in the range, returns the title, the period and "No journal entries
\* found for this period." with no heading after them, having issued the
\* one getAllPages call and no getPageBlocksTree call.
C18_EmptyJournalRange ==
    \A i \in DOMAIN inv :
        LET req   == inv[i].req
            range == parseDateRange(req.target.v, today)
            mine  == CallsOf(i)
        IN  (/\ inv[i].st = "done"
             /\ req.tool = "logseq_read" /\ req.op = "journal"
             /\ ~range.threw
             /\ Len(mine) >= 1 /\ mine[1].status = "ok"
             /\ \A n \in DOMAIN pages : ~StoredJournalInRange(pages[n], range)) =>
                /\ Len(mine) = 1
                /\ mine[1].method = "logseq.Editor.getAllPages"
                /\ inv[i].resp = "# " \o range.title \o "\n\n*"
                                   \o toLocaleDateString(range.start) \o " - "
                                   \o toLocaleDateString(range.end) \o "*\n\n"
                                   \o "No journal entries found for this period.\n"
                /\ ~Includes(inv[i].resp, "## ")

\* The journal of yesterday was read from a store that holds the journal
\* pages of today and of a day of the month before.
C18_Witness ==
    /\ inv[1].st = "done"
    /\ inv[1].req.tool = "logseq_read" /\ inv[1].req.op = "journal"
    /\ inv[1].req.target.v = "yesterday"
    /\ formatJournalDate(today) \in DOMAIN pages
    /\ Len(calls) = 1 /\ calls[1].status = "ok"
    /\ StartsWith(inv[1].resp, "# Yesterday's Journal\n\n*")
    /\ EndsWith(inv[1].resp, "*\n\nNo journal entries found for this period.\n")

\* C19: a read with options.depth = d renders no block nested deeper than
\* d levels: its text has no bullet line indented by d or more steps of
\* two spaces.
C19_DepthLimitsRenderedTree ==
    \A i \in DOMAIN inv :
        (/\ inv[i].st = "done" /\ inv[i].req.tool = "logseq_read"
         /\ inv[i].req.depth.type = "number") =>
            \A l \in 1..Len(splitLines(inv[i].resp)) :
                ~StartsWith(splitLines(inv[i].resp)[l],
                            repeat(" ", 2 * inv[i].req.depth.v) \o "- ")

(***************************************************************************)
(* Specification SpecToolsLive: SpecTools where a handler that can run     *)
(* does run, and every remote call is answered or fails in the end.        *)
(***************************************************************************)
\* Whether the handler of the tool has an invocation to run.
HandlerRuns(tool) == \E i \in DOMAIN inv : Running(i, tool)

\* A handler that can run does run: WF_vars(handler) for each of the four
\* handlers.  A handler is enabled exactly when an invocation of its tool is
\* running, and its step ends that, so WF_vars(handler) says that time and
\* again no invocation of the tool is running.  It is stated that way, as
\* ENABLED of a handler step has the whole step evaluated over again for
\* every state.
HandlersFair ==
    /\ []<>(~HandlerRuns("logseq_query")) /\ []<>(~HandlerRuns("logseq_read"))
    /\ []<>(~HandlerRuns("logseq_write")) /\ []<>(~HandlerRuns("logseq_analyze"))

SpecToolsLive ==
    /\ SpecTools
    /\ HandlersFair
    /\ WF_vars(callLogseqApiReturns \/ callLogseqApiThrows)

\* The invocations of the model.
Invocations == DOMAIN <<IdleInvocation>>

\* The step the handler of invocation i takes next.
NextStep(i) ==
    CASE inv[i].req.tool = "logseq_query"   -> QueryStep(inv[i], today)
      [] inv[i].req.tool = "logseq_read"    -> ReadStep(inv[i], today)
      [] inv[i].req.tool = "logseq_write"   -> WriteStep(inv[i], today)
      [] inv[i].req.tool = "logseq_analyze" -> AnalyzeStep(inv[i], today)

\* C20: with every remote call answered or failing in the end, an
\* invocation that was made gets done.  On the way a running invocation
\* always has a step that takes it to an await or to its return, and a
\* waiting one has its call outstanding; once it is done with its text,
\* nothing of it changes any more: it returns once.
C20_InvocationCompletesOnce ==
    /\ \A i \in Invocations : (inv[i].st # "idle") ~> (inv[i].st = "done")
    /\ [](\A i \in Invocations :
             /\ inv[i].st = "running" => NextStep(i).st \in {"waiting", "done"}
             /\ inv[i].st = "waiting" =>
                    \E j \in 1..Len(calls) :
                        calls[j].inv = i /\ calls[j].status = "pending")
    /\ [][\A i \in Invocations :
             inv[i].st = "done" =>
                 inv'[i].st = "done" /\ inv'[i].resp = inv[i].resp]_vars

\* The journal of the month was read through the loop over its pages: the
\* page list and then the block tree of the journal page were fetched.
C20_Witness ==
    /\ inv[1].st = "done"
    /\ inv[1].req.tool = "logseq_read" /\ inv[1].req.op = "journal"
    /\ inv[1].req.target.v = "this month"
    /\ Len(calls) = 2
    /\ calls[2].method = "logseq.Editor.getPageBlocksTree" /\ calls[2].status = "ok"
    /\ Includes(inv[1].resp, "## Top Referenced Pages")

(***************************************************************************)
(* create_page on a page the graph already holds.                          *)
(***************************************************************************)
AlreadyExistsText(name) ==
    "Page \"" \o name \o "\" already exists. Use append_to_page to add content."

\* The create_page invocations whose getPage answered with a page.
FoundExisting(i) ==
    /\ inv[i].req.tool = "logseq_write" /\ inv[i].req.op = "create_page"
    /\ Len(CallsOf(i)) >= 1
    /\ CallsOf(i)[1].status = "ok" /\ CallsOf(i)[1].found

\* C22: a create_page whose getPage answers with an existing page leaves
\* the store as it was: the getPage is its only call (no createPage, no
\* appendBlockInPage), whatever content and properties it was given, and
\* the text it returns is the "already exists" one.
C22_CreateExistingPageChangesNothing ==
    \A i \in DOMAIN inv :
        FoundExisting(i) =>
            /\ Len(CallsOf(i)) = 1
            /\ CallsOf(i)[1].method = "logseq.Editor.getPage"
            /\ CallsOf(i)[1].a1 = inv[i].req.target.v
            /\ pages = PopulatedStore(today) /\ nextId = 4
            /\ inv[i].st \in {"running", "done"}
            /\ inv[i].st = "done" => inv[i].resp = AlreadyExistsText(inv[i].req.target.v)

\* A create_page of "notes" with lines of content, properties and the
\* journal option met the page and returned.
C22_Witness ==
    /\ FoundExisting(1) /\ inv[1].st = "done"
    /\ inv[1].req.target.v = "notes"
    /\ Truthy(inv[1].req.content) /\ Len(NonBlankLines(inv[1].req.content.v)) = MaxLines
    /\ inv[1].req.properties.given /\ Len(inv[1].req.properties.entries) > 0
    /\ inv[1].req.asJournal
    /\ inv[1].resp = AlreadyExistsText("notes")

(***************************************************************************)
(* set_property and remove_property on a graph that also holds a page with *)
(* a name like a date, made of digits and hyphens only.                    *)
(***************************************************************************)
DateLikePage == "2024-02-20"
DateLikeBlock == Uuid(4)

PropertyStore(now) ==
    PopulatedStore(now)
    @@ (DateLikePage :> StoredPage(FALSE, 0, 5,
            <<StoredBlock(4, "released", <<<<"status", "open">>>>, <<>>)>>))

PropertyTargets ==
    <<FirstBlock, "((" \o FirstBlock \o "))", "notes", "ideas", DateLikePage, "deadbeef">>

PropertyRequests ==
    [j \in 1..(2 * Len(PropertyTargets) * Len(PropertySets)) |->
        [Write(IF j % 2 = 0 THEN "set_property" ELSE "remove_property",
               PropertyTargets[(((j - 1) \div 2) % Len(PropertyTargets)) + 1])
            EXCEPT !.properties =
                PropertySets[((j - 1) \div (2 * Len(PropertyTargets))) + 1]]]

InitProperty ==
    /\ \E d \in 1..Len(ToolDates) : today = ToolDates[d]
    /\ pages = PropertyStore(today)
    \* The blocks of the store bear the numbers 1 to 4.
    /\ nextId = 5
    /\ calls = <<>>
    /\ inv = <<IdleInvocation>>
    /\ dateRange = "" /\ parsed = NotCalled
    /\ BlockIdle /\ QueryIdle /\ NormIdle /\ BuildIdle

\* A client calls set_property or remove_property.
InvokeProperty ==
    \E i \in DOMAIN inv, j \in 1..Len(PropertyRequests) :
        /\ inv[i].st = "idle"
        /\ inv' = [inv EXCEPT ![i] = [IdleInvocation EXCEPT !.st = "running",
                                                            !.req = PropertyRequests[j]]]
        /\ UNCHANGED <<pages, nextId, calls, dateVars, blockVars, queryVars, normVars, buildVars>>

NextProperty ==
    \/ InvokeProperty
    \/ logseq_write
    \/ callLogseqApiReturns \/ callLogseqApiThrows

SpecProperty == InitProperty /\ [][NextProperty]_vars

\* A block UUID: 8-4-4-4-12 hexadecimal digits.
IsUuid(str) ==
    /\ Len(str) = 36
    /\ \A p \in 1..36 :
           IF p \in {9, 14, 19, 24} THEN SubSeq(str, p, p) = "-"
           ELSE \E h \in 1..(Len(HexChars) - 1) : SubSeq(HexChars, h, h) = SubSeq(str, p, p)

PropertyMethods ==
    {"logseq.Editor.upsertBlockProperty", "logseq.Editor.removeBlockProperty"}

\* C23: set_property and remove_property on the name of a page P read the
\* blocks of P and act on its first block, and they take the target for a
\* block id only when it is a block UUID, bare or in double parentheses: no
\* page name is treated as a block id, not even one made of digits,
\* hyphens and the letters a to f.
C23_PageNameNeverTakenForBlockId ==
    \A j \in 1..Len(calls) :
        LET target == inv[calls[j].inv].req.target.v
        IN  (/\ inv[calls[j].inv].req.op \in {"set_property", "remove_property"}
             /\ calls[j].method \in PropertyMethods)
            => /\ target \in DOMAIN pages =>
                      /\ Len(pages[target].blocks) > 0
                      /\ calls[j].a1 = pages[target].blocks[1].uuid
               /\ calls[j].a1 = StripParens(target) => IsUuid(StripParens(target))

(***************************************************************************)
(* Concurrent invocations: the host starts a write while another one is    *)
(* between two of its awaits.  Each invocation is create_page,             *)
(* append_to_page or append_to_journal on the journal page of the day,     *)
(* with content of its own, on a graph that holds the page or does not.    *)
(***************************************************************************)
MaxInvocations == 2
ConcurrentLines == 2

\* The page every invocation writes to.
SharedPage(now) == formatJournalDate(now)

\* The content of invocation i: its lines with blank lines between and
\* after them.
ConcurrentContent(i) ==
    join([j \in 1..ConcurrentLines |-> "task " \o ToString(i) \o " line " \o ToString(j)],
         "\n \n") \o "\n"

ConcurrentRequests(i, now) ==
    <<[Write("create_page", SharedPage(now)) EXCEPT !.content = Str(ConcurrentContent(i))],
      [Write("append_to_page", SharedPage(now)) EXCEPT !.content = Str(ConcurrentContent(i))],
      [Write("append_to_journal", "today") EXCEPT !.content = Str(ConcurrentContent(i))]>>

InitConcurrent ==
    /\ today = ToolDates[1]
    /\ \E populated \in BOOLEAN :
           pages = IF populated THEN PopulatedStore(today) ELSE <<>>
    /\ nextId = 4
    /\ calls = <<>>
    /\ inv = [i \in 1..MaxInvocations |-> IdleInvocation]
    /\ dateRange = "" /\ parsed = NotCalled
    /\ BlockIdle /\ QueryIdle /\ NormIdle /\ BuildIdle

\* The host calls the write tool, whatever the invocations before are at:
\* the invocations are numbered as they come in.
InvokeConcurrent ==
    \E i \in DOMAIN inv :
      \E j \in 1..Len(ConcurrentRequests(i, today)) :
        /\ inv[i].st = "idle"
        /\ \A h \in 1..(i - 1) : inv[h].st # "idle"
        /\ inv' = [inv EXCEPT ![i] = [IdleInvocation EXCEPT
                                         !.st = "running",
                                         !.req = ConcurrentRequests(i, today)[j]]]
        /\ UNCHANGED <<pages, nextId, calls, dateVars, blockVars, queryVars, normVars, buildVars>>

NextConcurrent ==
    \/ InvokeConcurrent
    \/ logseq_write
    \/ callLogseqApiReturns \/ callLogseqApiThrows

SpecConcurrent == InitConcurrent /\ [][NextConcurrent]_vars

\* C21: whatever the interleaving of the writes to one page, createPage is
\* never issued for a page the graph holds at the moment of the call, so
\* that a page that is absent at first and never deleted is created by at
\* most one createPage call.
C21_CreatePageNeverIssuedForExistingPage ==
    [][\A j \in 1..Len(calls') :
          (j > Len(calls) /\ calls'[j].method = "logseq.Editor.createPage")
              => calls'[j].a1 \notin DOMAIN pages]_vars

\* The non-blank lines of the content of invocation i, in their order.
ExpectedLines(i) ==
    [j \in 1..ConcurrentLines |-> "task " \o ToString(i) \o " line " \o ToString(j)]

\* The contents of the blocks of the shared page, in the order of the page.
SharedBlocks ==
    IF SharedPage(today) \in DOMAIN pages
    THEN [b \in 1..Len(pages[SharedPage(today)].blocks) |->
             pages[SharedPage(today)].blocks[b].content]
    ELSE <<>>

\* Those of them that invocation i appended.
BlocksOf(i) ==
    SelectSeq(SharedBlocks, LAMBDA c : StartsWith(c, "task " \o ToString(i) \o " "))

\* The appendBlockInPage calls of invocation i that were answered.
AppendsDone(i) ==
    SelectSeq(calls, LAMBDA c : /\ c.inv = i /\ c.status = "ok"
                                /\ c.method = "logseq.Editor.appendBlockInPage")

\* The invocation returned the text of a write that went through.
WroteAll(i) ==
    /\ inv[i].st = "done"
    /\ \/ StartsWith(inv[i].resp, "Added ")
       \/ EndsWith(inv[i].resp, "created successfully.")

\* mine, the blocks of invocation i, are the first of its non-blank lines,
\* as many as appends were answered, and all of them once it wrote all.
KeepsLineOrder(i, mine) ==
    /\ Len(mine) <= ConcurrentLines
    /\ mine = SubSeq(ExpectedLines(i), 1, Len(mine))
    /\ Len(mine) = Len(AppendsDone(i))
    /\ WroteAll(i) => Len(mine) = ConcurrentLines

\* C24: whatever the interleaving, the blocks an invocation appended lie in
\* the page in the order of the lines of its content, one for each
\* non-blank line it got to and none for a blank line: at any moment they
\* are the first of its non-blank lines, as many as appends were answered,
\* and all of them once the invocation returned its result.  Blocks of
\* other invocations may lie between them.
C24_AppendedBlocksKeepLineOrder ==
    /\ \A b \in 1..Len(SharedBlocks) : trim(SharedBlocks[b]) # ""
    /\ \A i \in DOMAIN inv : KeepsLineOrder(i, BlocksOf(i))

\* Two invocations on a graph without the page both wrote all their lines,
\* and their blocks alternate in the page.
C24_Witness ==
    /\ \A i \in DOMAIN inv : WroteAll(i)
    /\ inv[1].req.op = "append_to_journal" /\ inv[2].req.op = "create_page"
    /\ Len(SharedBlocks) = 2 * ConcurrentLines
    /\ \A b \in 1..Len(SharedBlocks) :
           SharedBlocks[b] = ExpectedLines(IF b % 2 = 1 THEN 1 ELSE 2)[(b + 1) \div 2]

====
